---- MODULE Spec2Model ----
(***************************************************************************)
(* gwt (git-worktree-cli): worktree-list parsing, branch-existence         *)
(* resolution, provider detection and pull-request listing.                *)
(*                                                                         *)
(* Strings are sequences of one-character strings, so that prefix          *)
(* stripping, substring search and the regular expressions of the source   *)
(* are computed character by character.  Option<T> is a sequence of        *)
(* length at most one: None is << >>, Some(x) is <<x>>.                    *)
(***************************************************************************)
EXTENDS Integers, Sequences, FiniteSets, TLC

\* ------------------------------------------------------------------ bounds
MaxBlocks == 2

\* ------------------------------------------------------------------ strings
None == << >>

Some(x) == <<x>>

IsSome(o) == Len(o) = 1

Unwrap(o) == o[1]

StartsWith(s, p) == Len(s) >= Len(p) /\ SubSeq(s, 1, Len(p)) = p

\* str::strip_prefix
StripPrefix(s, p) == IF StartsWith(s, p) THEN Some(SubSeq(s, Len(p) + 1, Len(s))) ELSE None

\* str::contains
Contains(s, p) == \E i \in 1..(Len(s) - Len(p) + 1) : SubSeq(s, i, i + Len(p) - 1) = p

\* ------------------------------------------------------------------ state
VARIABLES
    pc,             \* which command of the tool has run in this invocation
    git_blocks,     \* the worktree entries git holds (what the listing is rendered from)
    porcelain,      \* lines of `git worktree list --porcelain`
    worktrees,      \* Vec<Worktree> returned by parse_worktree_list
    add_args,       \* add: branch_name, print_path and what the environment answers
    add_exists,     \* add: Result<(bool, bool)> of git::branch_exists
    git_calls,      \* add: argument vectors passed to git::execute_streaming
    add_result,     \* add: "ok" or "err"
    add_printed,    \* add: the path or the success lines were printed
    add_hooks_run,  \* add: the postAdd hooks were executed
    init_repo_url,       \* init: the repository URL argument
    explicit_provider, \* init: Option<Provider> of --provider
    detect_result,  \* init: Result<Provider> of detect_repository_provider
    warnings,       \* init: <<detected, explicit>> of each mismatch warning printed
    init_result,    \* init: "ok" or "err"
    init_env,       \* init: how each step ends, and whether a config file was there before
    init_steps,     \* init: the steps executed after detection, in order
    init_dirs,      \* init: the directories of the project root after the run
    config_file,    \* init: git-worktree-config.yaml exists in the project root
    auth_config,    \* auth resolution: Option<repositoryUrl> of the configuration found
    auth_result,    \* auth resolution: Result of get_auth_from_config
    list_worktrees, \* list: Vec<Worktree> of git::list_worktrees
    list_config,    \* list: Option of the configuration found (sourceControl, repositoryUrl)
    list_credentials, \* list: credentials of the configured platform are available
    repo_info,      \* list: Option<(platform, owner_or_workspace, repo)>
    has_pr_info,    \* list: the provider client of repo_info's platform exists
    list_idx,       \* list: index of the worktree the loop is at
    display_worktrees, \* list: rows (branch, pull_request) pushed so far
    lookups,        \* list: branch names of the provider requests issued, in order
    clients_used,   \* list: the platform of the client each request was sent through
    responses,      \* list: what the provider answered to each request, in order
    open_prs,       \* list: the provider's open pull requests fetched for the remote-only section
    unmatched_remote, \* list: open pull requests without a local worktree
    tip,            \* list: the tip printed after the table
    list_result,    \* list: "ok" or "err"
    remove_env,     \* remove: what the environment and the user answer
    remove_calls,   \* remove: the git invocations made, in order, with their success
    remove_messages, \* remove: what was printed about the worktree and the branch
    remove_result,  \* remove: "ok" or "err"
    remove_target,  \* remove: Option of the worktree find_target_worktree resolved
    remove_working_dir, \* remove: Option of the worktree the git commands ran from
    http_response,  \* provider client: the client asked, the HTTP status and body it received
    http_outcome,   \* provider client: "ok" or the kind of error get_pull_requests returned
    fetch_args,     \* list_helpers: platform, client, branch and the provider's answer
    token_sources,  \* GitHub credentials: GITHUB_TOKEN, the stored token, the clock, `gh auth token`
    github_token,   \* GitHub credentials: Option<String> of GitHubClient.token
    token_consulted, \* GitHub credentials: the sources load_token consulted, in order
    github_has_auth, \* GitHub credentials: what has_auth returns
    hook_args,      \* hooks: hook_type, the configuration found and how each command exits
    hook_log,       \* hooks: the commands executed and skipped, in order
    hook_result,    \* hooks: "ok" or "err"
    fetch_result    \* list_helpers: Result<Option<PullRequestInfo>> of fetch_pr_for_branch

parseVars == <<git_blocks, porcelain, worktrees>>

addVars == <<add_args, add_exists, git_calls, add_result, add_printed, add_hooks_run>>

initVars ==
    <<init_repo_url, explicit_provider, detect_result, warnings, init_result, init_env,
      init_steps, init_dirs, config_file>>

authVars == <<auth_config, auth_result>>

listVars ==
    <<list_worktrees, list_config, list_credentials, repo_info, has_pr_info, list_idx,
      display_worktrees, lookups, clients_used, responses, open_prs, unmatched_remote, tip, list_result>>

removeVars ==
    <<remove_env, remove_calls, remove_messages, remove_result, remove_target, remove_working_dir>>

clientVars == <<http_response, http_outcome>>

fetchVars == <<fetch_args, fetch_result>>

tokenVars == <<token_sources, github_token, token_consulted, github_has_auth>>

hookVars == <<hook_args, hook_log, hook_result>>

vars ==
    <<pc, parseVars, addVars, initVars, authVars, listVars, removeVars, clientVars, fetchVars,
      tokenVars, hookVars>>

\* ------------------------------------------------------------------ git.rs: worktree list parser
WorktreeLineNew(path) == [kind |-> "New", val |-> path]

WorktreeLineHead(head) == [kind |-> "Head", val |-> head]

WorktreeLineBranch(branch) == [kind |-> "Branch", val |-> branch]

WorktreeLineBare == [kind |-> "Bare", val |-> << >>]

WorktreeLineOther == [kind |-> "Other", val |-> << >>]

ParseWorktreeLineNoBranch(line) ==
    IF IsSome(StripPrefix(line, <<"w","o","r","k","t","r","e","e"," ">>)) THEN WorktreeLineNew(Unwrap(StripPrefix(line, <<"w","o","r","k","t","r","e","e"," ">>)))
    ELSE IF IsSome(StripPrefix(line, <<"H","E","A","D"," ">>)) THEN WorktreeLineHead(Unwrap(StripPrefix(line, <<"H","E","A","D"," ">>)))
    ELSE IF line = <<"b","a","r","e">> THEN WorktreeLineBare
    ELSE WorktreeLineOther

parse_worktree_line(line) ==
    IF IsSome(StripPrefix(line, <<"w","o","r","k","t","r","e","e"," ">>)) THEN WorktreeLineNew(Unwrap(StripPrefix(line, <<"w","o","r","k","t","r","e","e"," ">>)))
    ELSE IF IsSome(StripPrefix(line, <<"H","E","A","D"," ">>)) THEN WorktreeLineHead(Unwrap(StripPrefix(line, <<"H","E","A","D"," ">>)))
    ELSE IF IsSome(StripPrefix(line, <<"b","r","a","n","c","h"," ">>)) THEN WorktreeLineBranch(Unwrap(StripPrefix(line, <<"b","r","a","n","c","h"," ">>)))
    ELSE IF line = <<"b","a","r","e">> THEN WorktreeLineBare
    ELSE WorktreeLineOther

DefaultPartialWorktree == [path |-> None, head |-> None, branch |-> None, bare |-> FALSE]

IntoWorktreePathOnly(pw) ==
    IF IsSome(pw.path)
    THEN Some([path |-> Unwrap(pw.path),
               head |-> IF IsSome(pw.head) THEN Unwrap(pw.head) ELSE << >>,
               branch |-> pw.branch, bare |-> pw.bare])
    ELSE None

into_worktree(pw) ==
    IF IsSome(pw.path) /\ IsSome(pw.head)
    THEN Some([path |-> Unwrap(pw.path), head |-> Unwrap(pw.head),
               branch |-> pw.branch, bare |-> pw.bare])
    ELSE None

\* current_worktree.take() followed by into_worktree and push
Flush(cur, acc) == IF IsSome(cur) THEN acc \o into_worktree(Unwrap(cur)) ELSE acc

ParseStepCarrying(line, cur, acc) ==
    LET wl == parse_worktree_line(line) IN
    CASE wl.kind = "New" ->
            <<Some([(IF IsSome(cur) THEN Unwrap(cur) ELSE DefaultPartialWorktree)
                        EXCEPT !.path = Some(wl.val)]), Flush(cur, acc)>>
      [] wl.kind = "Head" ->
            <<IF IsSome(cur) THEN Some([Unwrap(cur) EXCEPT !.head = Some(wl.val)]) ELSE cur, acc>>
      [] wl.kind = "Branch" ->
            <<IF IsSome(cur) THEN Some([Unwrap(cur) EXCEPT !.branch = Some(wl.val)]) ELSE cur, acc>>
      [] wl.kind = "Bare" ->
            <<IF IsSome(cur) THEN Some([Unwrap(cur) EXCEPT !.bare = TRUE]) ELSE cur, acc>>
      [] OTHER -> <<cur, acc>>

\* one iteration of `for line in output.lines()`: <<current_worktree, worktrees>>
ParseStep(line, cur, acc) ==
    LET wl == parse_worktree_line(line) IN
    CASE wl.kind = "New" ->
            <<Some([DefaultPartialWorktree EXCEPT !.path = Some(wl.val)]), Flush(cur, acc)>>
      [] wl.kind = "Head" ->
            <<IF IsSome(cur) THEN Some([Unwrap(cur) EXCEPT !.head = Some(wl.val)]) ELSE cur, acc>>
      [] wl.kind = "Branch" ->
            <<IF IsSome(cur) THEN Some([Unwrap(cur) EXCEPT !.branch = Some(wl.val)]) ELSE cur, acc>>
      [] wl.kind = "Bare" ->
            <<IF IsSome(cur) THEN Some([Unwrap(cur) EXCEPT !.bare = TRUE]) ELSE cur, acc>>
      [] OTHER -> <<cur, acc>>

RECURSIVE ParseLoop(_, _, _, _)
ParseLoop(lines, i, cur, acc) ==
    IF i > Len(lines)
    THEN Flush(cur, acc)
    ELSE LET nxt == ParseStep(lines[i], cur, acc) IN ParseLoop(lines, i + 1, nxt[1], nxt[2])

parse_worktree_list(lines) == ParseLoop(lines, 1, None, << >>)

\* ------------------------------------------------------------------ what git prints
\* A porcelain block as `git worktree list --porcelain` writes it: the
\* `worktree` line first, then the optional lines, then a blank line.
Paths == {<<"/","p","/","a">>, <<"/","p","/","b">>}

Hashes == {<<"c","0","f","f","e","e","0","1">>, <<"d","e","a","d","b","e","e","f">>}

Refs == {<<"r","e","f","s","/","h","e","a","d","s","/","x">>}

Blocks == [path : Paths, head : {None} \cup {Some(h) : h \in Hashes},
           branch : {None} \cup {Some(r) : r \in Refs}, bare : BOOLEAN]

RenderBlock(b) ==
    <<<<"w","o","r","k","t","r","e","e"," ">> \o b.path>>
    \o (IF IsSome(b.head) THEN <<<<"H","E","A","D"," ">> \o Unwrap(b.head)>> ELSE << >>)
    \o (IF IsSome(b.branch) THEN <<<<"b","r","a","n","c","h"," ">> \o Unwrap(b.branch)>> ELSE <<<<"d","e","t","a","c","h","e","d">>>>)
    \o (IF b.bare THEN <<<<"b","a","r","e">>>> ELSE << >>)
    \o << << >> >>

RECURSIVE RenderBlocks(_)
RenderBlocks(bs) == IF bs = << >> THEN << >> ELSE RenderBlock(Head(bs)) \o RenderBlocks(Tail(bs))

BlockSeqs == UNION {[1..n -> Blocks] : n \in 0..MaxBlocks}


\* ---- any text: the lines of a listing in any order, unknown lines included
MaxLines == 4

PorcelainLines ==
    {<<"w","o","r","k","t","r","e","e"," ","/","p","/","a">>, <<"w","o","r","k","t","r","e","e"," ","/","p","/","b">>, <<"H","E","A","D"," ","c","0","f","f","e","e","0","1">>, <<"H","E","A","D"," ","d","e","a","d","b","e","e","f">>,
     <<"b","r","a","n","c","h"," ","r","e","f","s","/","h","e","a","d","s","/","x">>, <<"b","a","r","e">>, <<"d","e","t","a","c","h","e","d">>}

LineSeqs == UNION {[1..n -> PorcelainLines] : n \in 0..MaxLines}
\* ------------------------------------------------------------------ git.rs: capturing queries
\* Result<T, E>: the error value is left out
Ok(v) == <<"ok", v>>

Err == <<"err">>

IsOk(r) == r[1] = "ok"

OkVal(r) == r[2]

IsWhitespace(c) == c \in {" ", "\n", "\t", "\r"}

RECURSIVE TrimStart(_)
TrimStart(s) == IF s # << >> /\ IsWhitespace(Head(s)) THEN TrimStart(Tail(s)) ELSE s

RECURSIVE TrimEnd(_)
TrimEnd(s) == IF s # << >> /\ IsWhitespace(s[Len(s)]) THEN TrimEnd(SubSeq(s, 1, Len(s) - 1)) ELSE s

\* str::trim
Trim(s) == TrimEnd(TrimStart(s))

\* what one run of the git binary gives: exit status and standard output
GitOutcome(success, stdout) == [success |-> success, stdout |-> stdout]

\* execute_capture: Err on a non-zero exit, else the trimmed standard output
execute_capture(outcome) == IF outcome.success THEN Ok(Trim(outcome.stdout)) ELSE Err

\* Result::unwrap_or_default on Result<String>
UnwrapOrDefault(r) == IF IsOk(r) THEN OkVal(r) ELSE << >>

BranchExistsPropagating(local_outcome, remote_outcome) ==
    IF IsOk(execute_capture(local_outcome)) /\ IsOk(execute_capture(remote_outcome))
    THEN Ok(<<OkVal(execute_capture(local_outcome)) # << >>, OkVal(execute_capture(remote_outcome)) # << >> >>)
    ELSE Err

branch_exists(local_outcome, remote_outcome) ==
    LET local == UnwrapOrDefault(execute_capture(local_outcome))
        remote == UnwrapOrDefault(execute_capture(remote_outcome))
    IN Ok(<<local # << >>, remote # << >> >>)

\* ------------------------------------------------------------------ commands/add.rs
\* project_root.join(branch_name)
TargetPath(project_root, branch_name) == project_root \o <<"/">> \o branch_name

WorktreeAddArgsRemoteFirst(local_exists, remote_exists, target_path, branch_name, main_branch) ==
    IF remote_exists
    THEN <<<<"w","o","r","k","t","r","e","e">>, <<"a","d","d">>, target_path, <<"-","b">>, branch_name, <<"o","r","i","g","i","n","/">> \o branch_name>>
    ELSE IF local_exists
    THEN <<<<"w","o","r","k","t","r","e","e">>, <<"a","d","d">>, target_path, branch_name>>
    ELSE <<<<"w","o","r","k","t","r","e","e">>, <<"a","d","d">>, <<"-","-","n","o","-","t","r","a","c","k">>, target_path, <<"-","b">>, branch_name,
           <<"o","r","i","g","i","n","/">> \o main_branch>>

\* the argument vector of the one `git worktree add` the command runs
WorktreeAddArgs(local_exists, remote_exists, target_path, branch_name, main_branch) ==
    IF local_exists
    THEN <<<<"w","o","r","k","t","r","e","e">>, <<"a","d","d">>, target_path, branch_name>>
    ELSE IF remote_exists
    THEN <<<<"w","o","r","k","t","r","e","e">>, <<"a","d","d">>, target_path, <<"-","b">>, branch_name, <<"o","r","i","g","i","n","/">> \o branch_name>>
    ELSE <<<<"w","o","r","k","t","r","e","e">>, <<"a","d","d">>, <<"-","-","n","o","-","t","r","a","c","k">>, target_path, <<"-","b">>, branch_name,
           <<"o","r","i","g","i","n","/">> \o main_branch>>

AfterWorktreeAddLenient(add_ok, print_path, hooks_ok) ==
    [printed |-> TRUE, hooks_run |-> ~print_path,
     result |-> IF print_path \/ hooks_ok THEN "ok" ELSE "err"]

\* what follows the `git worktree add` invocation: `?` returns its error;
\* else the path (print_path) or the success lines and the postAdd hooks
AfterWorktreeAdd(add_ok, print_path, hooks_ok) ==
    IF ~add_ok THEN [printed |-> FALSE, hooks_run |-> FALSE, result |-> "err"]
    ELSE [printed |-> TRUE, hooks_run |-> ~print_path,
          result |-> IF print_path \/ hooks_ok THEN "ok" ELSE "err"]

BranchNames == {<< >>, <<"x">>, <<"f","i","x","/","y">>}

MainBranches == {<<"m","a","i","n">>}

ProjectRoot == <<"/","p">>

\* `git branch --list <name>` prints nothing or the marked branch line
BranchListOutcomes(name) ==
    {GitOutcome(FALSE, << >>), GitOutcome(TRUE, << >>),
     GitOutcome(TRUE, <<" "," ">> \o name \o <<"\n">>), GitOutcome(TRUE, <<"*"," ">> \o name \o <<"\n">>)}

AddArgs ==
    {a \in [branch_name : BranchNames, print_path : BOOLEAN, paths_ok : BOOLEAN,
            main_branch : {None} \cup {Some(m) : m \in MainBranches},
            local_q : UNION {BranchListOutcomes(n) : n \in BranchNames},
            remote_q : UNION {BranchListOutcomes(<<"o","r","i","g","i","n","/">> \o n) : n \in BranchNames},
            add_ok : BOOLEAN, hooks_ok : BOOLEAN] :
        /\ a.local_q \in BranchListOutcomes(a.branch_name)
        /\ a.remote_q \in BranchListOutcomes(<<"o","r","i","g","i","n","/">> \o a.branch_name)}

\* ------------------------------------------------------------------ regular expressions of the source
\* first index k >= i with s[k] in chars, Len(s) + 1 when there is none
NextIn(s, i, chars) ==
    IF \E k \in i..Len(s) : s[k] \in chars
    THEN CHOOSE k \in i..Len(s) : s[k] \in chars /\ \A j \in i..(k - 1) : s[j] \notin chars
    ELSE Len(s) + 1

\* the literal lit stands at index i of s
LitAt(s, i, lit) ==
    IF i >= 1 /\ i + Len(lit) - 1 <= Len(s) THEN SubSeq(s, i, i + Len(lit) - 1) = lit ELSE FALSE

Slice(s, from, to) == IF from <= to THEN SubSeq(s, from, to) ELSE << >>

\* A match, starting at index s, of  pre ([^x1]+) mid1 ([^x2]+) mid2 ([^x3]+)
\* where mid1 begins with a character of x1 and mid2 with one of x2, so that
\* each greedy group ends at the first excluded character.  Some(captures) or None.
Match3At(url, s, pre, x1, mid1, x2, mid2, x3) ==
    LET p1 == s + Len(pre)
        e1 == NextIn(url, p1, x1)
        p2 == e1 + Len(mid1)
        e2 == NextIn(url, p2, x2)
        p3 == e2 + Len(mid2)
        e3 == NextIn(url, p3, x3)
    IN  IF /\ LitAt(url, s, pre)
           /\ e1 > p1 /\ LitAt(url, e1, mid1)
           /\ e2 > p2 /\ LitAt(url, e2, mid2)
           /\ e3 > p3
        THEN Some(<<Slice(url, p1, e1 - 1), Slice(url, p2, e2 - 1), Slice(url, p3, e3 - 1)>>)
        ELSE None

\* Regex::captures: the match with the leftmost start
Captures3(url, pre, x1, mid1, x2, mid2, x3) ==
    LET starts == {s \in 1..Len(url) : IsSome(Match3At(url, s, pre, x1, mid1, x2, mid2, x3))}
    IN  IF starts = {} THEN None
        ELSE Match3At(url, CHOOSE s \in starts : \A t \in starts : s <= t,
                      pre, x1, mid1, x2, mid2, x3)

\* a match of  bitbucket\.org[:/]([^/]+)/([^/\.]+)  starting at index s
BitbucketMatchAt(url, s) ==
    LET sep == s + Len(<<"b","i","t","b","u","c","k","e","t",".","o","r","g">>)
        p1 == sep + 1
        e1 == NextIn(url, p1, {"/"})
        p2 == e1 + 1
        e2 == NextIn(url, p2, {"/", "."})
    IN  IF /\ LitAt(url, s, <<"b","i","t","b","u","c","k","e","t",".","o","r","g">>)
           /\ (LitAt(url, sep, <<":">>) \/ LitAt(url, sep, <<"/">>))
           /\ e1 > p1 /\ LitAt(url, e1, <<"/">>)
           /\ e2 > p2
        THEN Some(<<Slice(url, p1, e1 - 1), Slice(url, p2, e2 - 1)>>)
        ELSE None

\* ------------------------------------------------------------------ github.rs
\* str::trim_end_matches: the suffix is removed as often as it occurs
RECURSIVE TrimEndMatches(_, _)
TrimEndMatches(s, suffix) ==
    IF Len(s) >= Len(suffix) /\ SubSeq(s, Len(s) - Len(suffix) + 1, Len(s)) = suffix
    THEN TrimEndMatches(SubSeq(s, 1, Len(s) - Len(suffix)), suffix)
    ELSE s

\* str::split on one character: always at least one part
RECURSIVE Split(_, _)
Split(s, sep) ==
    LET k == NextIn(s, 1, {sep}) IN
    IF k > Len(s) THEN <<s>>
    ELSE <<Slice(s, 1, k - 1)>> \o Split(Slice(s, k + 1, Len(s)), sep)

OwnerRepo(rest) ==
    LET parts == Split(TrimEndMatches(rest, <<".","g","i","t">>), "/") IN
    IF Len(parts) >= 2 THEN Some(<<parts[1], parts[2]>>) ELSE None

ParseGithubUrlHttpsOnly(url) ==
    IF IsSome(StripPrefix(url, <<"h","t","t","p","s",":","/","/","g","i","t","h","u","b",".","c","o","m","/">>))
    THEN OwnerRepo(Unwrap(StripPrefix(url, <<"h","t","t","p","s",":","/","/","g","i","t","h","u","b",".","c","o","m","/">>)))
    ELSE None

parse_github_url(url) ==
    IF IsSome(StripPrefix(url, <<"h","t","t","p","s",":","/","/","g","i","t","h","u","b",".","c","o","m","/">>))
    THEN OwnerRepo(Unwrap(StripPrefix(url, <<"h","t","t","p","s",":","/","/","g","i","t","h","u","b",".","c","o","m","/">>)))
    ELSE IF IsSome(StripPrefix(url, <<"g","i","t","@","g","i","t","h","u","b",".","c","o","m",":">>))
    THEN OwnerRepo(Unwrap(StripPrefix(url, <<"g","i","t","@","g","i","t","h","u","b",".","c","o","m",":">>)))
    ELSE None

\* ------------------------------------------------------------------ bitbucket_api.rs
extract_bitbucket_info_from_url(url) ==
    IF Contains(url, <<"b","i","t","b","u","c","k","e","t",".","o","r","g">>)
    THEN LET starts == {s \in 1..Len(url) : IsSome(BitbucketMatchAt(url, s))} IN
         IF starts = {} THEN None
         ELSE BitbucketMatchAt(url, CHOOSE s \in starts : \A t \in starts : s <= t)
    ELSE None

is_bitbucket_repository(remote_url) == Contains(remote_url, <<"b","i","t","b","u","c","k","e","t",".","o","r","g">>)

\* ------------------------------------------------------------------ bitbucket_data_center_api.rs
\* `if base_url.starts_with("http") { base_url } else { format!("https://{}", base_url) }`
ApiBaseUrl(base_url) == IF StartsWith(base_url, <<"h","t","t","p">>) THEN base_url ELSE <<"h","t","t","p","s",":","/","/">> \o base_url

DcInfo(api_base_url, caps) == Some(<<api_base_url, caps[2], caps[3]>>)

extract_bitbucket_data_center_info_from_url(url) ==
    LET scm == Captures3(url, << >>, {"/"}, <<"/","s","c","m","/">>, {"/"}, <<"/">>, {"/", "."})
        projects == Captures3(url, << >>, {"/"}, <<"/","p","r","o","j","e","c","t","s","/">>, {"/"}, <<"/","r","e","p","o","s","/">>, {"/", "."})
        ssh == Captures3(url, <<"g","i","t","@">>, {":"}, <<":">>, {"/"}, <<"/">>, {"/", "."})
        ssh_protocol == Captures3(url, <<"s","s","h",":","/","/","g","i","t","@">>, {"/"}, <<"/">>, {"/"}, <<"/">>, {"/", "."})
    IN  IF IsSome(scm) THEN DcInfo(ApiBaseUrl(Unwrap(scm)[1]), Unwrap(scm))
        ELSE IF IsSome(projects) THEN DcInfo(ApiBaseUrl(Unwrap(projects)[1]), Unwrap(projects))
        ELSE IF IsSome(ssh) THEN DcInfo(<<"h","t","t","p","s",":","/","/">> \o Unwrap(ssh)[1], Unwrap(ssh))
        ELSE IF IsSome(ssh_protocol)
        THEN DcInfo(<<"h","t","t","p","s",":","/","/">> \o Unwrap(ssh_protocol)[1], Unwrap(ssh_protocol))
        ELSE None

\* ------------------------------------------------------------------ commands/init.rs: provider resolution
Providers == {"Github", "BitbucketCloud", "BitbucketDataCenter"}

detect_provider_from_url(repo_url) ==
    IF IsSome(parse_github_url(repo_url)) THEN Some("Github")
    ELSE IF is_bitbucket_repository(repo_url) THEN Some("BitbucketCloud")
    ELSE None

\* std::mem::discriminant(a) == std::mem::discriminant(b)
providers_match(a, b) == a = b

DetectRepositoryProviderStrict(repo_url, provider) ==
    LET auto_detected == detect_provider_from_url(repo_url) IN
    IF IsSome(provider)
    THEN IF IsSome(auto_detected) /\ ~providers_match(Unwrap(auto_detected), Unwrap(provider))
         THEN [result |-> Err, warnings |-> << >>]
         ELSE [result |-> Ok(Unwrap(provider)), warnings |-> << >>]
    ELSE [result |-> IF IsSome(auto_detected) THEN Ok(Unwrap(auto_detected)) ELSE Err,
          warnings |-> << >>]

\* the Result<Provider> and the warn_provider_mismatch lines it prints
detect_repository_provider(repo_url, provider) ==
    LET auto_detected == detect_provider_from_url(repo_url) IN
    IF IsSome(provider)
    THEN [result |-> Ok(Unwrap(provider)),
          warnings |-> IF IsSome(auto_detected)
                          /\ ~providers_match(Unwrap(auto_detected), Unwrap(provider))
                       THEN << <<Unwrap(auto_detected), Unwrap(provider)>> >>
                       ELSE << >>]
    ELSE [result |-> IF IsSome(auto_detected) THEN Ok(Unwrap(auto_detected)) ELSE Err,
          warnings |-> << >>]

\* ------------------------------------------------------------------ commands/init.rs: run after detection
InitStepNamesConfigFirst == <<"prepare", "save", "clone", "default_branch", "rename", "hooks">>

\* the fallible steps of run in program order: current_dir and removal of an
\* old clone directory, git clone, git symbolic-ref, removal of an old target
\* and rename, config.save, the postInit hooks
InitStepNames == <<"prepare", "clone", "default_branch", "rename", "save", "hooks">>

\* url.split('/').last(), without a trailing ".git"
LastSegment(url) ==
    IF \E i \in DOMAIN url : url[i] = "/"
    THEN SubSeq(url, 1 + (CHOOSE i \in DOMAIN url :
                              url[i] = "/" /\ \A j \in (i + 1)..Len(url) : url[j] # "/"), Len(url))
    ELSE url

StripSuffix(s, suffix) ==
    IF Len(s) >= Len(suffix) /\ SubSeq(s, Len(s) - Len(suffix) + 1, Len(s)) = suffix
    THEN Some(SubSeq(s, 1, Len(s) - Len(suffix))) ELSE None

extract_repo_name(repo_url) ==
    IF IsSome(StripSuffix(LastSegment(repo_url), <<".","g","i","t">>))
    THEN Unwrap(StripSuffix(LastSegment(repo_url), <<".","g","i","t">>))
    ELSE LastSegment(repo_url)

\* the directories of the project root: <<name, content>>, the content being
\* "old" for what was there before init and "clone" for the cloned repository
DirExists(dirs, name) == \E d \in dirs : d[1] = name

\* fs::remove_dir_all
RemoveDirAll(dirs, name) == {d \in dirs : d[1] # name}

\* git clone <url> <dir>
CloneInto(dirs, name) == dirs \cup {<<name, "clone">>}

\* fs::rename of a directory that exists onto a name that is free
RenameDir(dirs, from, to) ==
    {d \in dirs : d[1] # from} \cup {<<to, d[2]>> : d \in {e \in dirs : e[1] = from}}

\* lines 23-29: the old directory of the repository's name is removed, then the clone
DirsAfterClone(env) == CloneInto(RemoveDirAll(env.dirs_before, env.repo_name), env.repo_name)

\* lines 38-41: whatever has the default branch's name is removed
DirsBeforeRename(env) == RemoveDirAll(DirsAfterClone(env), env.default_branch)

\* env says how each step ends in this environment; the rename of line 43
\* needs its source directory
InitStepOk(env, step) ==
    CASE step = "prepare" -> env.prepare_ok
      [] step = "clone" -> env.clone_ok
      [] step = "default_branch" -> env.branch_ok
      [] step = "rename" -> env.rename_ok /\ DirExists(DirsBeforeRename(env), env.repo_name)
      [] step = "save" -> env.save = "ok"
      [] OTHER -> env.hooks_ok

\* the directories of the project root after the steps that were executed
InitDirs(env, steps) ==
    IF \E i \in DOMAIN steps : steps[i] = "rename"
    THEN IF ~env.rename_ok THEN DirsAfterClone(env)
         ELSE IF DirExists(DirsBeforeRename(env), env.repo_name)
         THEN RenameDir(DirsBeforeRename(env), env.repo_name, env.default_branch)
         ELSE DirsBeforeRename(env)
    ELSE IF \E i \in DOMAIN steps : steps[i] = "clone"
    THEN IF env.clone_ok THEN DirsAfterClone(env) ELSE RemoveDirAll(env.dirs_before, env.repo_name)
    ELSE IF steps # << >> /\ env.prepare_ok THEN RemoveDirAll(env.dirs_before, env.repo_name)
    ELSE env.dirs_before

\* the steps run executes: every `?` returns at the first failure
InitStepsRun(env, names) ==
    IF \E i \in DOMAIN names : ~InitStepOk(env, names[i])
    THEN SubSeq(names, 1, CHOOSE i \in DOMAIN names :
                              /\ ~InitStepOk(env, names[i])
                              /\ \A j \in 1..(i - 1) : InitStepOk(env, names[j]))
    ELSE names

\* result of run and whether git-worktree-config.yaml exists afterwards; a
\* failed write either leaves no new file or a partial one
InitOutcome(detected, env, steps) ==
    IF ~detected THEN [steps |-> << >>, result |-> "err", config_file |-> env.config_before]
    ELSE [steps |-> steps,
          result |-> IF \A i \in DOMAIN steps : InitStepOk(env, steps[i]) THEN "ok" ELSE "err",
          config_file |-> IF \E i \in DOMAIN steps : steps[i] = "save"
                          THEN env.config_before \/ env.save # "failed"
                          ELSE env.config_before]

DefaultBranches == {<<"m","a","i","n">>, <<"w","i","d","g","e","t","s">>}

OldDirs == SUBSET {<<<<"w","i","d","g","e","t","s">>, "old">>, <<<<"m","a","i","n">>, "old">>}

\* how each step ends, with an empty project root and the default branch main
InitStepEnvs ==
    [prepare_ok : BOOLEAN, clone_ok : BOOLEAN, branch_ok : BOOLEAN, rename_ok : BOOLEAN,
     save : {"ok", "failed", "partial"}, hooks_ok : BOOLEAN, config_before : BOOLEAN,
     default_branch : {<<"m","a","i","n">>}, dirs_before : {{}}]

\* what the project root holds and what the default branch is called
InitDirEnvs ==
    [prepare_ok : BOOLEAN, clone_ok : BOOLEAN, branch_ok : {TRUE}, rename_ok : BOOLEAN,
     save : {"ok"}, hooks_ok : {TRUE}, config_before : {FALSE},
     default_branch : DefaultBranches, dirs_before : OldDirs]

InitEnvs == InitStepEnvs \cup InitDirEnvs

\* the environment of a run, with the repository name taken from the URL
InitEnv(env, repo_name) == [repo_name |-> repo_name] @@ env

\* ------------------------------------------------------------------ auth resolution from the project configuration
\* config is Option<repository_url>: None when no git-worktree-config.yaml is found
\* bitbucket_auth::get_auth_from_config (workspace, repo; the e-mail is left out)
bitbucket_get_auth_from_config(config) ==
    IF config = None THEN Err
    ELSE IF ~Contains(Unwrap(config), <<"b","i","t","b","u","c","k","e","t",".","o","r","g">>) THEN Err
    ELSE IF extract_bitbucket_info_from_url(Unwrap(config)) = None THEN Err
    ELSE Ok(Unwrap(extract_bitbucket_info_from_url(Unwrap(config))))

DataCenterGetAuthNoCheck(config) ==
    IF config = None THEN Err
    ELSE IF extract_bitbucket_data_center_info_from_url(Unwrap(config)) = None THEN Err
    ELSE Ok(Unwrap(extract_bitbucket_data_center_info_from_url(Unwrap(config))))

\* bitbucket_data_center_auth::get_auth_from_config
data_center_get_auth_from_config(config) ==
    IF config = None THEN Err
    ELSE IF Contains(Unwrap(config), <<"b","i","t","b","u","c","k","e","t",".","o","r","g">>) THEN Err
    ELSE IF extract_bitbucket_data_center_info_from_url(Unwrap(config)) = None THEN Err
    ELSE Ok(Unwrap(extract_bitbucket_data_center_info_from_url(Unwrap(config))))

\* ------------------------------------------------------------------ repository URLs
DcShapes == {"scm", "projects", "ssh", "ssh_protocol"}

DcHosts == {<<"g","i","t",".","a","c","m","e",".","c","o","m">>, <<"h","t","t","p","d",".","a","c","m","e",".","c","o","m">>}

DcProjects == {<<"W","I","D">>}

DcRepos == {<<"w","i","d","g","e","t","s">>, <<"m","y",".","w","i","d","g","e","t","s">>}

GitSuffixes == {<< >>, <<".","g","i","t">>}

\* a repository URL written in one of the four Data Center shapes
DcUrl(shape, host, project, repo, suffix) ==
    CASE shape = "scm" -> <<"h","t","t","p","s",":","/","/">> \o host \o <<"/","s","c","m","/">> \o project \o <<"/">> \o repo \o suffix
      [] shape = "projects" ->
            <<"h","t","t","p","s",":","/","/">> \o host \o <<"/","p","r","o","j","e","c","t","s","/">> \o project \o <<"/","r","e","p","o","s","/">> \o repo \o suffix
      [] shape = "ssh" -> <<"g","i","t","@">> \o host \o <<":">> \o project \o <<"/">> \o repo \o suffix
      [] shape = "ssh_protocol" ->
            <<"s","s","h",":","/","/","g","i","t","@">> \o host \o <<"/">> \o project \o <<"/">> \o repo \o suffix

DcUrls ==
    {DcUrl(sh, h, p, r, x) : sh \in DcShapes, h \in DcHosts, p \in DcProjects, r \in DcRepos,
                             x \in GitSuffixes}

GithubUrls ==
    {<<"h","t","t","p","s",":","/","/","g","i","t","h","u","b",".","c","o","m","/","a","c","m","e","/","w","i","d","g","e","t","s",".","g","i","t">>, <<"h","t","t","p","s",":","/","/","g","i","t","h","u","b",".","c","o","m","/","a","c","m","e","/","w","i","d","g","e","t","s">>,
     <<"g","i","t","@","g","i","t","h","u","b",".","c","o","m",":","a","c","m","e","/","w","i","d","g","e","t","s",".","g","i","t">>, <<"g","i","t","@","g","i","t","h","u","b",".","c","o","m",":","a","c","m","e","/","w","i","d","g","e","t","s">>}

BitbucketUrls ==
    {<<"h","t","t","p","s",":","/","/","b","i","t","b","u","c","k","e","t",".","o","r","g","/","a","c","m","e","/","w","i","d","g","e","t","s",".","g","i","t">>, <<"h","t","t","p","s",":","/","/","b","i","t","b","u","c","k","e","t",".","o","r","g","/","a","c","m","e","/","w","i","d","g","e","t","s">>,
     <<"g","i","t","@","b","i","t","b","u","c","k","e","t",".","o","r","g",":","a","c","m","e","/","w","i","d","g","e","t","s",".","g","i","t">>}

OtherUrls ==
    {<<"h","t","t","p","s",":","/","/","g","i","t","l","a","b",".","c","o","m","/","a","c","m","e","/","w","i","d","g","e","t","s">>, <<"h","t","t","p","s",":","/","/","g","i","t","h","u","b",".","c","o","m","/","a","c","m","e">>,
     <<"s","s","h",":","/","/","g","i","t","@","g","i","t",".","a","c","m","e",".","c","o","m",":","7","9","9","9","/","W","I","D","/","w","i","d","g","e","t","s",".","g","i","t">>, <<"/","s","r","v","/","g","i","t","/","w","i","d","g","e","t","s">>}

RepoUrls == GithubUrls \cup BitbucketUrls \cup DcUrls \cup OtherUrls

\* ------------------------------------------------------------------ commands/list.rs
RefsHeadsLen == 11

LowerLetters == <<"a","b","c","d","e","f","g","h","i","j","k","l","m","n","o","p","q","r","s","t","u","v","w","x","y","z">>

UpperLetters == <<"A","B","C","D","E","F","G","H","I","J","K","L","M","N","O","P","Q","R","S","T","U","V","W","X","Y","Z">>

LetterIndex(letters, c) == CHOOSE i \in DOMAIN letters : letters[i] = c

\* str::to_uppercase and str::to_lowercase on ASCII text
ToUppercase(s) ==
    [i \in DOMAIN s |->
        IF \E k \in DOMAIN LowerLetters : LowerLetters[k] = s[i]
        THEN UpperLetters[LetterIndex(LowerLetters, s[i])] ELSE s[i]]

ToLowercase(s) ==
    [i \in DOMAIN s |->
        IF \E k \in DOMAIN UpperLetters : UpperLetters[k] = s[i]
        THEN LowerLetters[LetterIndex(UpperLetters, s[i])] ELSE s[i]]

\* chars().take(n).collect()
Take(s, n) == IF Len(s) <= n THEN s ELSE SubSeq(s, 1, n)

CleanBranchNameOffByOne(branch) ==
    IF StartsWith(branch, <<"r","e","f","s","/","h","e","a","d","s","/">>)
    THEN SubSeq(branch, RefsHeadsLen, Len(branch))
    ELSE branch

\* `if b.starts_with("refs/heads/") { b[11..] } else { b }`
clean_branch_name(branch) ==
    IF StartsWith(branch, <<"r","e","f","s","/","h","e","a","d","s","/">>)
    THEN SubSeq(branch, RefsHeadsLen + 1, Len(branch))
    ELSE branch

\* the BRANCH column of a worktree
DisplayBranch(wt) ==
    IF IsSome(wt.branch) THEN clean_branch_name(Unwrap(wt.branch))
    ELSE IF wt.bare THEN <<"(","b","a","r","e",")">>
    ELSE Take(wt.head, 8)

OwnerRepoInfoUnchecked(platform, gh) ==
    IF IsSome(gh) THEN Some(<<platform, Unwrap(gh)[1], Unwrap(gh)[2]>>) ELSE None

\* parse_github_url(..).unwrap_or_else(|| ("", "")) and the two is_empty tests:
\* Some((platform, owner, repo)) when both parts are non-empty
OwnerRepoInfo(platform, gh) ==
    IF IsSome(gh) /\ Unwrap(gh)[1] # << >> /\ Unwrap(gh)[2] # << >>
    THEN Some(<<platform, Unwrap(gh)[1], Unwrap(gh)[2]>>) ELSE None

\* the "bitbucket-cloud" arm: bb is extract_bitbucket_info_from_url(repo_url)
CloudRepoInfo(bb, credentials) ==
    IF IsSome(bb)
    THEN [info |-> Some(<<"bitbucket-cloud", Unwrap(bb)[1], Unwrap(bb)[2]>>), client |-> credentials]
    ELSE [info |-> None, client |-> FALSE]

\* the "bitbucket-data-center" arm: dc is get_auth_from_config(), fallback the
\* owner and repo of parse_github_url, for display only
DataCenterRepoInfo(dc, fallback, credentials) ==
    IF IsOk(dc)
    THEN [info |-> Some(<<"bitbucket-data-center", OkVal(dc)[2], OkVal(dc)[3]>>),
          client |-> credentials]
    ELSE [info |-> fallback, client |-> FALSE]

\* repo_info: Option<(platform, owner_or_workspace, repo)>, and whether a
\* provider client with credentials exists.  config is None or
\* Some([source_control, repository_url]); credentials says whether the
\* credentials of the configured platform are available.
RepoInfo(config, credentials) ==
    IF config = None THEN [info |-> None, client |-> FALSE]
    ELSE CASE Unwrap(config).source_control = "bitbucket-cloud" ->
                 CloudRepoInfo(extract_bitbucket_info_from_url(Unwrap(config).repository_url),
                               credentials)
           [] Unwrap(config).source_control = "bitbucket-data-center" ->
                 DataCenterRepoInfo(
                     data_center_get_auth_from_config(Some(Unwrap(config).repository_url)),
                     OwnerRepoInfo("bitbucket-data-center",
                                   parse_github_url(Unwrap(config).repository_url)),
                     credentials)
           [] OTHER ->
                 [info |-> OwnerRepoInfo("github", parse_github_url(Unwrap(config).repository_url)),
                  client |-> credentials]

\* has_pr_info: a repository is known and the client of its platform exists
HasPrInfo(r) ==
    IsSome(r.info) /\ Unwrap(r.info)[1] \in {"github", "bitbucket-cloud", "bitbucket-data-center"}
                   /\ r.client

\* status text of a GitHub pull request
GithubStatusText(pr) ==
    IF pr.draft THEN <<"D","R","A","F","T">>
    ELSE IF ToLowercase(pr.state) = <<"o","p","e","n">> THEN <<"O","P","E","N">>
    ELSE IF ToLowercase(pr.state) = <<"c","l","o","s","e","d">> THEN <<"C","L","O","S","E","D">>
    ELSE IF ToLowercase(pr.state) = <<"m","e","r","g","e","d">> THEN <<"M","E","R","G","E","D">>
    ELSE ToUppercase(pr.state)

FormatPr(url, status_text) == url \o <<" ","(">> \o status_text \o <<")">>

FindLastBranchPr(prs, branch) ==
    IF \E i \in DOMAIN prs : prs[i].source = branch
    THEN Some(prs[CHOOSE i \in DOMAIN prs :
                      prs[i].source = branch /\ \A j \in (i + 1)..Len(prs) : prs[j].source # branch])
    ELSE None

\* prs.iter().find(|pr| pr.source.branch.name == branch): the first pull request of the branch
FindBranchPr(prs, branch) ==
    IF \E i \in DOMAIN prs : prs[i].source = branch
    THEN Some(prs[CHOOSE i \in DOMAIN prs :
                      prs[i].source = branch /\ \A j \in 1..(i - 1) : prs[j].source # branch])
    ELSE None

\* `href` of the html link (Cloud) or of the first self link (Data Center), else "PR #<id>"
BitbucketPrUrl(pr) == IF IsSome(pr.href) THEN Unwrap(pr.href) ELSE <<"P","R"," ","#">> \o pr.id

PullRequestCellSilent(platform, branch, response) ==
    IF ~IsOk(response) \/ OkVal(response) = << >> THEN <<"-">>
    ELSE <<"P","R">>

\* the PULL REQUEST column from the provider's answer for one worktree
PullRequestCell(platform, branch, response) ==
    IF ~IsOk(response) THEN <<"?">>
    ELSE LET prs == OkVal(response) IN
         IF platform = "github"
         THEN IF prs = << >> THEN <<"-">>
              ELSE FormatPr(prs[1].html_url, GithubStatusText(prs[1]))
         ELSE LET branch_pr == FindBranchPr(prs, branch)
              IN  IF IsSome(branch_pr)
                  THEN FormatPr(BitbucketPrUrl(Unwrap(branch_pr)), ToUppercase(Unwrap(branch_pr).state))
                  ELSE <<"-">>

\* whether the loop asks the provider about this worktree
LooksUp(pr_info, wt) == pr_info /\ ~wt.bare /\ DisplayBranch(wt) # <<"(","b","a","r","e",")">>

AppendRowFront(rows, row) == <<row>> \o rows

\* display_worktrees.push(..)
AppendRow(rows, row) == Append(rows, row)

TipSilent(config, pr_info) == None

\* the tip printed after the table when there is no PR information
Tip(config, pr_info) ==
    IF pr_info \/ config = None THEN None
    ELSE IF Unwrap(config).source_control \in {"bitbucket-cloud", "bitbucket-data-center"}
    THEN Some(Unwrap(config).source_control)
    ELSE Some("github")

\* ------------------------------------------------------------------ remote-only pull requests
\* cleaned branch names of the non-bare worktrees that have a branch
LocalBranches(ws) ==
    {clean_branch_name(Unwrap(ws[i].branch)) : i \in {j \in DOMAIN ws : ~ws[j].bare /\ IsSome(ws[j].branch)}}

NotLocal(local_branches, pr) == pr.source \notin local_branches

\* open pull requests of the provider whose source branch has no local worktree
UnmatchedRemote(prs, local_branches) ==
    LET Keep(pr) == NotLocal(local_branches, pr) IN SelectSeq(prs, Keep)

\* ------------------------------------------------------------------ listings and provider answers
MaxWorktrees == 2

MaxOpenPrs == 2

\* Worktrees as the parser returns them for git's listing: git writes `bare`
\* in place of the HEAD/branch lines, so a bare entry carries no branch.
ListWorktree(i, branch, bare) ==
    [path |-> <<"/","p","/","w">> \o <<ToString(i)>>, head |-> <<"c","0","f","f","e","e","0","1","2","3">>, branch |-> branch, bare |-> bare]

ListBranchRefs == {<<"r","e","f","s","/","h","e","a","d","s","/","x">>, <<"r","e","f","s","/","h","e","a","d","s","/","y">>}

ListWorktreeSeqs ==
    UNION {{[i \in 1..n |-> ListWorktree(i, f[i].branch, f[i].bare)] :
              f \in [1..n -> {e \in [branch : {None} \cup {Some(r) : r \in ListBranchRefs},
                                      bare : BOOLEAN] : e.bare => e.branch = None}]}
           : n \in 0..MaxWorktrees}

ListConfigs ==
    {None} \cup
    {Some([source_control |-> sc, repository_url |-> u]) :
        sc \in {"github", "bitbucket-cloud", "bitbucket-data-center"},
        u \in {<<"h","t","t","p","s",":","/","/","g","i","t","h","u","b",".","c","o","m","/","a","c","m","e","/","w","i","d","g","e","t","s",".","g","i","t">>, <<"g","i","t","@","b","i","t","b","u","c","k","e","t",".","o","r","g",":","a","c","m","e","/","w","i","d","g","e","t","s",".","g","i","t">>,
               DcUrl("scm", <<"g","i","t",".","a","c","m","e",".","c","o","m">>, <<"W","I","D">>, <<"w","i","d","g","e","t","s">>, <<".","g","i","t">>),
               <<"h","t","t","p","s",":","/","/","g","i","t","h","u","b",".","c","o","m","/","/","w","i","d","g","e","t","s",".","g","i","t">>, <<"h","t","t","p","s",":","/","/","g","i","t","h","u","b",".","c","o","m","/","a","c","m","e","/",".","g","i","t">>}}

GithubPr(state, draft, n) ==
    [state |-> state, draft |-> draft, html_url |-> <<"h","t","t","p","s",":","/","/","g","i","t","h","u","b",".","c","o","m","/","a","c","m","e","/","w","i","d","g","e","t","s","/","p","u","l","l","/">> \o n]

GithubResponses ==
    {Err, Ok(<< >>), Ok(<<GithubPr(<<"o","p","e","n">>, FALSE, <<"5">>)>>),
     Ok(<<GithubPr(<<"c","l","o","s","e","d">>, TRUE, <<"7">>), GithubPr(<<"o","p","e","n">>, FALSE, <<"5">>)>>)}

BitbucketPr(id, state, source, href) == [id |-> id, state |-> state, source |-> source, href |-> href]

BitbucketResponses ==
    {Err, Ok(<< >>),
     Ok(<<BitbucketPr(<<"3">>, <<"O","P","E","N">>, <<"w">>, None),
          BitbucketPr(<<"4">>, <<"M","e","r","g","e","d">>, <<"x">>, Some(<<"h","t","t","p","s",":","/","/","b","i","t","b","u","c","k","e","t",".","o","r","g","/","a","c","m","e","/","w","i","d","g","e","t","s","/","p","u","l","l","-","r","e","q","u","e","s","t","s","/","4">>)),
          BitbucketPr(<<"6">>, <<"O","P","E","N">>, <<"x">>, None)>>)}

\* raw state strings a provider may send
PrStates == {<<"o","p","e","n">>, <<"O","P","E","N">>, <<"C","l","o","s","e","d">>, <<"m","e","r","g","e","d">>, <<"M","E","R","G","E","D">>, <<"l","o","c","k","e","d">>}

GithubStatusResponses == {Ok(<<GithubPr(st, d, <<"5">>)>>) : st \in PrStates, d \in BOOLEAN}

\* answers carrying a state in capitals and a state list does not know
GithubOtherStateResponses ==
    {Ok(<<GithubPr(<<"M","E","R","G","E","D">>, FALSE, <<"5">>)>>), Ok(<<GithubPr(<<"l","o","c","k","e","d">>, FALSE, <<"5">>)>>)}

Responses(platform) ==
    IF platform = "github" THEN GithubResponses \cup GithubOtherStateResponses
    ELSE BitbucketResponses

OpenPr(source) == [source |-> source, status |-> <<"O","P","E","N">>]

OpenPrSeqs == UNION {[1..n -> {OpenPr(<<"x">>), OpenPr(<<"w">>)}] : n \in 0..MaxOpenPrs}

\* ------------------------------------------------------------------ commands/list_helpers.rs
\* PullRequestInfo { url, status }; the title is carried along unchanged and left out
PullRequestInfo(url, status) == [url |-> url, status |-> status]

GithubStatusRawState(pr) == IF pr.draft THEN <<"D","R","A","F","T">> ELSE pr.state

\* the status computed by fetch_github_pr for the first pull request
GithubStatus(pr) ==
    IF pr.draft THEN <<"D","R","A","F","T">>
    ELSE CASE ToLowercase(pr.state) = <<"o","p","e","n">> -> <<"O","P","E","N">>
           [] ToLowercase(pr.state) = <<"c","l","o","s","e","d">> -> <<"C","L","O","S","E","D">>
           [] ToLowercase(pr.state) = <<"m","e","r","g","e","d">> -> <<"M","E","R","G","E","D">>
           [] OTHER -> ToUppercase(pr.state)

\* prs.first()
First(prs) == IF prs = << >> THEN None ELSE Some(prs[1])

\* client is whether the Option<client> is Some; response is what
\* client.get_pull_requests returns
fetch_github_pr(client, branch, response) ==
    IF ~client THEN Ok(None)
    ELSE IF ~IsOk(response) THEN Err
    ELSE IF IsSome(First(OkVal(response)))
    THEN Ok(Some(PullRequestInfo(Unwrap(First(OkVal(response))).html_url,
                                 GithubStatus(Unwrap(First(OkVal(response)))))))
    ELSE Ok(None)

\* extract_bitbucket_cloud_url and extract_bitbucket_data_center_url
extract_bitbucket_url(pr) == IF IsSome(pr.href) THEN Unwrap(pr.href) ELSE <<"P","R"," ","#">> \o pr.id

\* Some(PullRequestInfo) of the pull request found for the branch
BranchPrInfo(branch_pr) ==
    IF IsSome(branch_pr)
    THEN Ok(Some(PullRequestInfo(extract_bitbucket_url(Unwrap(branch_pr)),
                                 ToUppercase(Unwrap(branch_pr).state))))
    ELSE Ok(None)

\* prs.iter().find(|pr| pr.source.branch.name == branch)
fetch_bitbucket_cloud_pr(client, branch, response) ==
    IF ~client THEN Ok(None)
    ELSE IF ~IsOk(response) THEN Err
    ELSE BranchPrInfo(FindBranchPr(OkVal(response), branch))

\* prs.iter().find(|pr| pr.from_ref.display_id == branch)
fetch_bitbucket_data_center_pr(client, branch, response) ==
    IF ~client THEN Ok(None)
    ELSE IF ~IsOk(response) THEN Err
    ELSE BranchPrInfo(FindBranchPr(OkVal(response), branch))

fetch_pr_for_branch(platform, client, branch, response) ==
    CASE platform = "github" -> fetch_github_pr(client, branch, response)
      [] platform = "bitbucket-cloud" -> fetch_bitbucket_cloud_pr(client, branch, response)
      [] platform = "bitbucket-data-center" -> fetch_bitbucket_data_center_pr(client, branch, response)
      [] OTHER -> Ok(None)

\* the PULL REQUEST text of format_pr_display
format_pr_display(pr_info) ==
    IF IsSome(pr_info)
    THEN Unwrap(pr_info).url \o <<" ","(">> \o Unwrap(pr_info).status \o <<")">>
    ELSE <<"-">>

\* the answer has the type of the platform's client
FetchArgs ==
    UNION {[platform : {p}, client : BOOLEAN, branch : {<<"x">>, <<"y">>},
            response : IF p = "github" THEN Responses(p) \cup GithubStatusResponses
                       ELSE Responses(p)] :
              p \in {"github", "bitbucket-cloud", "bitbucket-data-center", "gitlab"}}

\* ------------------------------------------------------------------ commands/remove.rs
\* one invocation of the git binary and whether it exited with success
GitCall(cmd, success) == [cmd |-> cmd, success |-> success]

RemoveResult(calls, result, messages) == [calls |-> calls, result |-> result, messages |-> messages]

\* branch.strip_prefix("refs/heads/").unwrap_or(branch)
CleanBranchName(branch) ==
    IF IsSome(StripPrefix(branch, <<"r","e","f","s","/","h","e","a","d","s","/">>))
    THEN Unwrap(StripPrefix(branch, <<"r","e","f","s","/","h","e","a","d","s","/">>))
    ELSE branch

get_branch_display(wt) ==
    IF IsSome(wt.branch) THEN CleanBranchName(Unwrap(wt.branch))
    ELSE IF wt.bare THEN <<"(","b","a","r","e",")">>
    ELSE Take(wt.head, 8)

main_branches == {<<"m","a","i","n">>, <<"m","a","s","t","e","r">>, <<"d","e","v">>, <<"d","e","v","e","l","o","p">>}

\* position of the last '/' of a path, 0 when it has none
LastSlash(path) ==
    IF \E i \in DOMAIN path : path[i] = "/"
    THEN CHOOSE i \in DOMAIN path : path[i] = "/" /\ \A j \in (i + 1)..Len(path) : path[j] # "/"
    ELSE 0

\* Path::file_name: the last component, None for the root and for `..`
FileName(path) ==
    IF LastSlash(path) = Len(path) \/ SubSeq(path, LastSlash(path) + 1, Len(path)) = <<".",".">>
    THEN None
    ELSE Some(SubSeq(path, LastSlash(path) + 1, Len(path)))

\* Path::starts_with: base is a prefix of path made of whole components
PathStartsWith(path, base) ==
    /\ StartsWith(path, base)
    /\ Len(path) = Len(base) \/ path[Len(base) + 1] = "/"

ConfirmedAnyLetterY(input) == StartsWith(ToLowercase(Trim(input)), <<"y">>)

\* input.trim().to_lowercase() is "y" or "yes"
Confirmed(input) == ToLowercase(Trim(input)) \in {<<"y">>, <<"y","e","s">>}

\* iter().find(..) over the listing: the first worktree of the set of indices
FirstOf(wts, idxs) ==
    IF idxs = {} THEN None
    ELSE Some(wts[CHOOSE i \in idxs : \A j \in idxs : i <= j])

find_current_worktree(wts, current_dir) ==
    FirstOf(wts, {i \in DOMAIN wts : PathStartsWith(current_dir, wts[i].path)})

find_by_branch_name(wts, target_branch) ==
    FirstOf(wts, {i \in DOMAIN wts :
                            /\ IsSome(wts[i].branch)
                            /\ CleanBranchName(Unwrap(wts[i].branch)) = target_branch})

find_by_path_name(wts, target_branch) ==
    FirstOf(wts, {i \in DOMAIN wts :
                            /\ IsSome(FileName(wts[i].path))
                            /\ Unwrap(FileName(wts[i].path)) = target_branch})

FindWorktreeByPathFirst(wts, target_branch) ==
    IF IsSome(find_by_path_name(wts, target_branch))
    THEN find_by_path_name(wts, target_branch)
    ELSE find_by_branch_name(wts, target_branch)

\* by branch name first, then by the directory name; None is the bail!
find_worktree_by_branch(wts, target_branch) ==
    IF IsSome(find_by_branch_name(wts, target_branch))
    THEN find_by_branch_name(wts, target_branch)
    ELSE find_by_path_name(wts, target_branch)

\* Result<&Worktree> as an Option: None is the Err of either branch
find_target_worktree(wts, branch_name, current_dir) ==
    IF branch_name = None THEN find_current_worktree(wts, current_dir)
    ELSE find_worktree_by_branch(wts, Unwrap(branch_name))

IsMainBranchWorktree(wt) ==
    IsSome(wt.branch) /\ CleanBranchName(Unwrap(wt.branch)) \in main_branches

GitWorkingDirAny(wts, target) == FirstOf(wts, DOMAIN wts)

\* the worktree the git commands run from: another worktree on a main branch,
\* or else any other worktree
git_working_dir(wts, target) ==
    IF \E i \in DOMAIN wts : wts[i].path # target.path /\ IsMainBranchWorktree(wts[i])
    THEN FirstOf(wts, {i \in DOMAIN wts :
                                 wts[i].path # target.path /\ IsMainBranchWorktree(wts[i])})
    ELSE FirstOf(wts, {i \in DOMAIN wts : wts[i].path # target.path})

BranchDeletionForcing(env, branch_display) ==
    IF branch_display \in main_branches THEN [calls |-> << >>, messages |-> <<"preserved">>]
    ELSE IF env.delete = "ok"
    THEN [calls |-> <<GitCall("branch -d", TRUE)>>, messages |-> <<"deleted">>]
    ELSE [calls |-> <<GitCall("branch -d", FALSE), GitCall("branch -D", env.force_ok)>>,
          messages |-> IF env.force_ok THEN <<"unmerged", "force deleted">>
                       ELSE <<"unmerged", "failed to delete">>]

BranchDeletionAlways(env, branch_display) ==
    IF env.delete = "ok"
    THEN [calls |-> <<GitCall("branch -d", TRUE)>>, messages |-> <<"deleted">>]
    ELSE [calls |-> <<GitCall("branch -d", FALSE)>>, messages |-> <<"failed to delete">>]

\* deletion of the branch after the worktree is gone: `git branch -d`, and on
\* "not fully merged" a prompt and `git branch -D`; every failure is printed
\* and none is returned
BranchDeletion(env, branch_display) ==
    IF branch_display \in main_branches THEN [calls |-> << >>, messages |-> <<"preserved">>]
    ELSE IF env.delete = "ok"
    THEN [calls |-> <<GitCall("branch -d", TRUE)>>, messages |-> <<"deleted">>]
    ELSE IF env.delete = "unmerged"
    THEN IF Confirmed(env.force_input)
         THEN [calls |-> <<GitCall("branch -d", FALSE), GitCall("branch -D", env.force_ok)>>,
               messages |-> IF env.force_ok THEN <<"unmerged", "force?", "force deleted">>
                            ELSE <<"unmerged", "force?", "failed to delete">>]
         ELSE [calls |-> <<GitCall("branch -d", FALSE)>>,
               messages |-> <<"unmerged", "force?", "not deleted">>]
    ELSE [calls |-> <<GitCall("branch -d", FALSE)>>, messages |-> <<"failed to delete">>]

RemoveWorktreeAborting(env, calls, deletion) ==
    IF ~env.remove_ok
    THEN RemoveResult(Append(calls, GitCall("worktree remove", FALSE)), "err", <<"confirm?">>)
    ELSE RemoveResult(Append(calls, GitCall("worktree remove", TRUE)) \o deletion.calls,
                      IF (\E i \in DOMAIN deletion.calls : ~deletion.calls[i].success)
                         \/ ~env.hooks_ok
                      THEN "err" ELSE "ok",
                      <<"confirm?", "removed">> \o deletion.messages)

\* `git worktree remove --force`, then the branch, then the postRemove hooks
RemoveWorktree(env, calls, deletion) ==
    IF ~env.remove_ok
    THEN RemoveResult(Append(calls, GitCall("worktree remove", FALSE)), "err", <<"confirm?">>)
    ELSE RemoveResult(Append(calls, GitCall("worktree remove", TRUE)) \o deletion.calls,
                      IF env.hooks_ok THEN "ok" ELSE "err",
                      <<"confirm?", "removed">> \o deletion.messages)

\* what remove did: the git calls, the result and the printed lines, with the
\* worktree it resolved and the worktree it ran git from
RemoveOutcome(r, target, working_dir) ==
    [calls |-> r.calls, result |-> r.result, messages |-> r.messages,
     target |-> target, working_dir |-> working_dir]

RemoveTargetUnguarded(env, calls, target) ==
    IF ~Confirmed(env.input)
    THEN RemoveOutcome(RemoveResult(calls, "ok", <<"confirm?", "cancelled">>), Some(target), None)
    ELSE IF ~env.root_ok
    THEN RemoveOutcome(RemoveResult(calls, "err", <<"confirm?">>), Some(target), None)
    ELSE IF git_working_dir(env.worktrees, target) = None
    THEN RemoveOutcome(RemoveResult(calls, "err", <<"confirm?">>), Some(target), None)
    ELSE RemoveOutcome(RemoveWorktree(env, calls, BranchDeletion(env, get_branch_display(target))),
                       Some(target), git_working_dir(env.worktrees, target))

\* from the resolved target on: the bare check, the confirmation, the project
\* root and the worktree the git commands run from
RemoveTarget(env, calls, target) ==
    IF target.bare
    THEN RemoveOutcome(RemoveResult(calls, "err", << >>), Some(target), None)
    ELSE IF ~Confirmed(env.input)
    THEN RemoveOutcome(RemoveResult(calls, "ok", <<"confirm?", "cancelled">>), Some(target), None)
    ELSE IF ~env.root_ok
    THEN RemoveOutcome(RemoveResult(calls, "err", <<"confirm?">>), Some(target), None)
    ELSE IF git_working_dir(env.worktrees, target) = None
    THEN RemoveOutcome(RemoveResult(calls, "err", <<"confirm?">>), Some(target), None)
    ELSE RemoveOutcome(RemoveWorktree(env, calls, BranchDeletion(env, get_branch_display(target))),
                       Some(target), git_working_dir(env.worktrees, target))

\* git::list_worktrees and find_target_worktree
RemoveFromList(env, calls) ==
    IF ~env.list_ok
    THEN RemoveOutcome(RemoveResult(Append(calls, GitCall("worktree list", FALSE)), "err", << >>),
                       None, None)
    ELSE IF env.worktrees = << >>
    THEN RemoveOutcome(RemoveResult(Append(calls, GitCall("worktree list", TRUE)), "ok",
                                    <<"no wts">>), None, None)
    ELSE IF find_target_worktree(env.worktrees, env.branch_name, env.current_dir) = None
    THEN RemoveOutcome(RemoveResult(Append(calls, GitCall("worktree list", TRUE)), "err", << >>),
                       None, None)
    ELSE RemoveTarget(env, Append(calls, GitCall("worktree list", TRUE)),
                      Unwrap(find_target_worktree(env.worktrees, env.branch_name, env.current_dir)))

\* find_git_directory: through the config file, or through get_git_root, whose
\* failed `git rev-parse` is Ok(None) and makes find_git_directory bail
remove_run(env) ==
    IF env.git_dir = "rev_parse_failed"
    THEN RemoveOutcome(RemoveResult(<<GitCall("rev-parse", FALSE)>>, "err", << >>), None, None)
    ELSE RemoveFromList(env, IF env.git_dir = "rev_parse_ok"
                             THEN <<GitCall("rev-parse", TRUE)>> ELSE << >>)

\* ---- the listings, arguments and answers remove is run with
MaxRemoveListing == 3

Worktree(path, head, branch, bare) == [path |-> path, head |-> head, branch |-> branch, bare |-> bare]

\* entries `git worktree list` can hold: the bare repository, wts on a
\* main branch, on a feature branch, in a directory named like another
\* worktree's branch, and on a detached HEAD
RemovePool ==
    {Worktree(<<"/","p","/","r","e","p","o">>, << >>, None, TRUE),
     Worktree(<<"/","p","/","m","a","i","n">>, <<"c","0","f","f","e","e","0","1","2","3">>, Some(<<"r","e","f","s","/","h","e","a","d","s","/","m","a","i","n">>), FALSE),
     Worktree(<<"/","p","/","f","e","a","t">>, <<"d","e","a","d","b","e","e","f","4","5">>, Some(<<"r","e","f","s","/","h","e","a","d","s","/","f","e","a","t">>), FALSE),
     Worktree(<<"/","q","/","f","e","a","t">>, <<"0","1","2","3","4","5","6","7","8","9">>, Some(<<"r","e","f","s","/","h","e","a","d","s","/","d","e","v">>), FALSE),
     Worktree(<<"/","q","/","t","w","o">>, <<"d","e","a","d","b","e","e","f","4","5">>, Some(<<"r","e","f","s","/","h","e","a","d","s","/","f","e","a","t">>), FALSE),
     Worktree(<<"/","p","/","d","e","t">>, <<"a","b","c","d","e","f","0","1","2","3">>, None, FALSE)}

\* listings of distinct entries
RemoveListings ==
    {ws \in UNION {[1..n -> RemovePool] : n \in 0..MaxRemoveListing} :
        \A i, j \in DOMAIN ws : i # j => ws[i] # ws[j]}

RemoveBranchNames == {None, Some(<<"f","e","a","t">>), Some(<<"m","a","i","n">>), Some(<<"d","e","v">>), Some(<<"d","e","t">>), Some(<<"r","e","p","o">>), Some(<<"n","o","p","e">>)}

RemoveCurrentDirs == {<<"/","p","/","f","e","a","t","/","s","r","c">>, <<"/","p","/","f","e","a","t","u","r","e">>, <<"/","p","/","d","e","t">>}

ConfirmationInputs == {<<"y","\n">>, <<"Y","E","S","\n">>, <<" ","Y","e","s"," ","\n">>, <<"n","\n">>, <<"\n">>, <<"y","e","s"," ","p","l","e","a","s","e","\n">>, << >>}

RemoveEnv(git_dir, list_ok, ws, branch_name, current_dir, input, root_ok, remove_ok, delete, force_input, force_ok, hooks_ok) ==
    [git_dir |-> git_dir, list_ok |-> list_ok, worktrees |-> ws, branch_name |-> branch_name,
     current_dir |-> current_dir, input |-> input, root_ok |-> root_ok, remove_ok |-> remove_ok,
     delete |-> delete, force_input |-> force_input, force_ok |-> force_ok, hooks_ok |-> hooks_ok]

\* where git is found and whether the listing succeeds
RemoveStartEnvs ==
    {RemoveEnv(g, l, ws, Some(<<"f","e","a","t">>), <<"/","p","/","f","e","a","t","/","s","r","c">>, <<"y","\n">>, TRUE, TRUE, "ok", <<"n","\n">>, TRUE, TRUE) :
        g \in {"config", "rev_parse_ok", "rev_parse_failed"}, l \in BOOLEAN,
        ws \in {<< >>, <<Worktree(<<"/","p","/","m","a","i","n">>, <<"c","0","f","f","e","e","0","1","2","3">>, Some(<<"r","e","f","s","/","h","e","a","d","s","/","m","a","i","n">>), FALSE),
                         Worktree(<<"/","p","/","f","e","a","t">>, <<"d","e","a","d","b","e","e","f","4","5">>, Some(<<"r","e","f","s","/","h","e","a","d","s","/","f","e","a","t">>), FALSE)>>}}

\* which worktree is resolved and where git runs from
RemoveResolveEnvs ==
    {RemoveEnv("config", TRUE, ws, b, c, i, TRUE, TRUE, "ok", <<"n","\n">>, TRUE, TRUE) :
        ws \in RemoveListings, b \in RemoveBranchNames, c \in RemoveCurrentDirs,
        i \in {<<"y","\n">>, <<"n","\n">>}}

\* what the user answers and how each later step ends
RemoveStepEnvs ==
    {RemoveEnv("config", TRUE, ws, None, <<"/","p","/","f","e","a","t","/","s","r","c">>, i, r, w, d, f, fo, h) :
        ws \in {<<Worktree(<<"/","p","/","m","a","i","n">>, <<"c","0","f","f","e","e","0","1","2","3">>, Some(<<"r","e","f","s","/","h","e","a","d","s","/","m","a","i","n">>), FALSE),
                  Worktree(<<"/","p","/","f","e","a","t">>, <<"d","e","a","d","b","e","e","f","4","5">>, Some(<<"r","e","f","s","/","h","e","a","d","s","/","f","e","a","t">>), FALSE)>>,
                <<Worktree(<<"/","p","/","f","e","a","t">>, <<"c","0","f","f","e","e","0","1","2","3">>, Some(<<"r","e","f","s","/","h","e","a","d","s","/","d","e","v","e","l","o","p">>), FALSE),
                  Worktree(<<"/","p","/","d","e","t">>, <<"a","b","c","d","e","f","0","1","2","3">>, None, FALSE)>>},
        i \in ConfirmationInputs, r \in BOOLEAN, w \in BOOLEAN,
        d \in {"ok", "unmerged", "failed"}, f \in ConfirmationInputs, fo \in BOOLEAN,
        h \in BOOLEAN}

RemoveEnvs == RemoveStartEnvs \cup RemoveResolveEnvs \cup RemoveStepEnvs
\* ------------------------------------------------------------------ github.rs: credential lookup
AuthToken(access_token, expires_at) == [access_token |-> access_token, expires_at |-> expires_at]

TokenLookup(token, consulted) == [token |-> token, consulted |-> consulted]

\* env::var("GITHUB_TOKEN"): None when unset, and an empty value is passed over
EnvToken(env_var) == IF IsSome(env_var) /\ Unwrap(env_var) # << >> THEN env_var ELSE None

\* load_auth_token and the expiry test: a token without expires_at is valid,
\* one with expires_at is valid while expires_at > now
StoredToken(stored, now) ==
    IF ~IsOk(stored) THEN None
    ELSE IF IsSome(OkVal(stored).expires_at)
    THEN IF Unwrap(OkVal(stored).expires_at) > now THEN Some(OkVal(stored).access_token) ELSE None
    ELSE Some(OkVal(stored).access_token)

\* `gh auth token`: the trimmed standard output of a successful run, if not empty
get_gh_token(gh) ==
    IF gh.spawned /\ gh.success /\ gh.utf8 /\ Trim(gh.stdout) # << >>
    THEN Some(Trim(gh.stdout)) ELSE None

LoadTokenStoredFirst(env_var, stored, now, gh) ==
    IF IsSome(StoredToken(stored, now))
    THEN TokenLookup(StoredToken(stored, now), <<"stored">>)
    ELSE IF IsSome(EnvToken(env_var))
    THEN TokenLookup(EnvToken(env_var), <<"stored", "env">>)
    ELSE TokenLookup(get_gh_token(gh), <<"stored", "env", "gh">>)

\* the token and the sources consulted for it, in order
load_token(env_var, stored, now, gh) ==
    IF IsSome(EnvToken(env_var))
    THEN TokenLookup(EnvToken(env_var), <<"env">>)
    ELSE IF IsSome(StoredToken(stored, now))
    THEN TokenLookup(StoredToken(stored, now), <<"env", "stored">>)
    ELSE TokenLookup(get_gh_token(gh), <<"env", "stored", "gh">>)

has_auth(token) == IsSome(token)

\* ---- the sources a lookup is run against
Now == 2

EnvVars == {None, Some(<< >>), Some(<<"e","n","v","t","o","k">>)}

StoredTokens ==
    {Err} \cup {Ok(AuthToken(a, e)) : a \in {<< >>, <<"s","t","o","r","e","d">>},
                                      e \in {None, Some(Now - 1), Some(Now), Some(Now + 1)}}

GhOutcome(spawned, success, utf8, stdout) ==
    [spawned |-> spawned, success |-> success, utf8 |-> utf8, stdout |-> stdout]

GhOutcomes ==
    {GhOutcome(FALSE, FALSE, TRUE, << >>), GhOutcome(TRUE, FALSE, TRUE, <<"g","h","t","o","k","\n">>),
     GhOutcome(TRUE, TRUE, FALSE, <<"g","h","t","o","k","\n">>), GhOutcome(TRUE, TRUE, TRUE, <<"g","h","t","o","k","\n">>),
     GhOutcome(TRUE, TRUE, TRUE, <<" ","\n">>), GhOutcome(TRUE, TRUE, TRUE, << >>)}

TokenSources == [env_var : EnvVars, stored : StoredTokens, now : {Now}, gh : GhOutcomes]
\* ------------------------------------------------------------------ hooks.rs
\* str::replace: every occurrence of pattern, left to right, not overlapping
RECURSIVE Replace(_, _, _)
Replace(s, pattern, value) ==
    IF s = << >> THEN << >>
    ELSE IF StartsWith(s, pattern)
    THEN value \o Replace(SubSeq(s, Len(pattern) + 1, Len(s)), pattern, value)
    ELSE <<Head(s)>> \o Replace(Tail(s), pattern, value)

\* the loop over (var_name, var_value): each ${var_name} replaced in turn
RECURSIVE Substitute(_, _)
Substitute(command, variables) ==
    IF variables = << >> THEN command
    ELSE Substitute(Replace(command, <<"$","{">> \o variables[1][1] \o <<"}">>, variables[1][2]),
                    Tail(variables))

HookSkipped(hook) == [kind |-> "skip", hook |-> hook, command |-> << >>, ok |-> TRUE]

HookExecuted(hook, command, ok) == [kind |-> "exec", hook |-> hook, command |-> command, ok |-> ok]

HooksOutcome(result, log) == [result |-> result, log |-> log]

RECURSIVE RunHooksFailFast(_, _, _, _, _)
RunHooksFailFast(hook_commands, i, variables, exits, log) ==
    IF i > Len(hook_commands) THEN HooksOutcome("ok", log)
    ELSE IF StartsWith(Trim(hook_commands[i]), <<"#">>)
    THEN RunHooksFailFast(hook_commands, i + 1, variables, exits, Append(log, HookSkipped(hook_commands[i])))
    ELSE IF exits[i]
    THEN RunHooksFailFast(hook_commands, i + 1, variables, exits,
                          Append(log, HookExecuted(hook_commands[i],
                                                   Substitute(hook_commands[i], variables), TRUE)))
    ELSE HooksOutcome("err", Append(log, HookExecuted(hook_commands[i],
                                                      Substitute(hook_commands[i], variables), FALSE)))

\* the loop over the hook commands: a commented line is skipped, any other is
\* run through `sh -c` and its failure is printed
RECURSIVE RunHooks(_, _, _, _, _)
RunHooks(hook_commands, i, variables, exits, log) ==
    IF i > Len(hook_commands) THEN HooksOutcome("ok", log)
    ELSE IF StartsWith(Trim(hook_commands[i]), <<"#">>)
    THEN RunHooks(hook_commands, i + 1, variables, exits, Append(log, HookSkipped(hook_commands[i])))
    ELSE RunHooks(hook_commands, i + 1, variables, exits,
                  Append(log, HookExecuted(hook_commands[i],
                                           Substitute(hook_commands[i], variables), exits[i])))

\* match hook_type: Some(Option<Vec<String>>) of the type, None for any other
HookCommands(hooks, hook_type) ==
    IF hook_type = "postAdd" THEN Some(hooks.post_add)
    ELSE IF hook_type = "postRemove" THEN Some(hooks.post_remove)
    ELSE IF hook_type = "postInit" THEN Some(hooks.post_init)
    ELSE None

\* config is the Result<Option<GitWorktreeConfig>> of find_config
execute_hooks(hook_type, config, variables, exits) ==
    IF ~IsOk(config) THEN HooksOutcome("err", << >>)
    ELSE IF OkVal(config) = None THEN HooksOutcome("ok", << >>)
    ELSE IF Unwrap(OkVal(config)).hooks = None THEN HooksOutcome("ok", << >>)
    ELSE IF HookCommands(Unwrap(Unwrap(OkVal(config)).hooks), hook_type) = None
    THEN HooksOutcome("ok", << >>)
    ELSE IF Unwrap(HookCommands(Unwrap(Unwrap(OkVal(config)).hooks), hook_type)) = None
    THEN HooksOutcome("ok", << >>)
    ELSE RunHooks(Unwrap(Unwrap(HookCommands(Unwrap(Unwrap(OkVal(config)).hooks), hook_type))),
                  1, variables, exits, << >>)

\* ---- the configurations and exits hooks are run with
MaxHooks == 3

HookLines == {<<"n","p","m"," ","i">>, <<"#"," ","n","p","m"," ","i">>, <<" ","#","x">>, <<"e","c","h","o"," ","$","{","b","r","a","n","c","h","N","a","m","e","}"," ","#","$","{","b","r","a","n","c","h","N","a","m","e","}">>}

HookSeqs == UNION {[1..n -> HookLines] : n \in 0..MaxHooks}

HookVariables == <<<<<<"b","r","a","n","c","h","N","a","m","e">>, <<"f","e","a","t">>>>, <<<<"w","o","r","k","t","r","e","e","P","a","t","h">>, <<"/","p","/","f","e","a","t">>>>>>

Hooks(post_add, post_remove, post_init) ==
    [post_add |-> post_add, post_remove |-> post_remove, post_init |-> post_init]

HookConfig(hooks) == [hooks |-> hooks]

HookArgs(hook_type, config, exits) ==
    [hook_type |-> hook_type, config |-> config, variables |-> HookVariables, exits |-> exits]

\* what find_config returns and which hook lists the file holds
HookShapeArgs ==
    {HookArgs(t, c, <<FALSE, TRUE>>) :
        t \in {"postAdd", "postRemove", "postInit", "preAdd"},
        c \in {Err, Ok(None), Ok(Some(HookConfig(None)))}
              \cup {Ok(Some(HookConfig(Some(Hooks(a, r, i))))) :
                        a \in {None, Some(<<<<"n","p","m"," ","i">>, <<"#"," ","n","p","m"," ","i">>>>)},
                        r \in {None, Some(<< >>), Some(<<<<" ","#","x">>, <<"n","p","m"," ","i">>>>)},
                        i \in {None, Some(<<<<"n","p","m"," ","i">>>>)}}}

\* the postAdd commands and how each of them exits
HookRunArgs ==
    {HookArgs("postAdd", Ok(Some(HookConfig(Some(Hooks(Some(cmds), None, None))))), e) :
        cmds \in HookSeqs, e \in [1..MaxHooks -> BOOLEAN]}

HookArgsSet == HookShapeArgs \cup HookRunArgs
\* ------------------------------------------------------------------ provider clients: get_pull_requests
\* StatusCode::is_success and StatusCode::is_client_error
IsSuccess(status) == status >= 200 /\ status < 300

IsClientError(status) == status >= 400 /\ status < 500

\* what get_pull_requests returns: "ok", or the kind of its error -- "auth",
\* "not_found", "status" (a message naming the status) or "parse" (the body
\* is not the expected JSON)
ParseBody(body_parses) == IF body_parses THEN "ok" ELSE "parse"

\* GitHubClient::get_pull_requests
github_get_pull_requests(status, body_parses) ==
    IF IsSuccess(status) THEN ParseBody(body_parses)
    ELSE IF status = 401 THEN "auth"
    ELSE "status"

\* BitbucketClient::get_pull_requests
bitbucket_get_pull_requests(status, body_parses) ==
    IF IsClientError(status)
    THEN IF status = 401 THEN "auth"
         ELSE IF status = 404 THEN "not_found"
         ELSE "status"
    ELSE ParseBody(body_parses)

\* BitbucketDataCenterClient::get_pull_requests
data_center_get_pull_requests(status, body_parses) ==
    IF IsClientError(status)
    THEN IF status = 401 THEN "auth"
         ELSE IF status = 404 THEN "not_found"
         ELSE "status"
    ELSE ParseBody(body_parses)

Clients == {"github", "bitbucket-cloud", "bitbucket-data-center"}

get_pull_requests(client, status, body_parses) ==
    CASE client = "github" -> github_get_pull_requests(status, body_parses)
      [] client = "bitbucket-cloud" -> bitbucket_get_pull_requests(status, body_parses)
      [] OTHER -> data_center_get_pull_requests(status, body_parses)

\* HTTP statuses a server may answer with
HttpStatuses == {200, 201, 204, 301, 400, 401, 403, 404, 409, 429, 500, 502, 503}

HttpResponses == [client : Clients, status : HttpStatuses, body_parses : BOOLEAN]

\* ------------------------------------------------------------------ initial state
parseInit == git_blocks = << >> /\ porcelain = << >> /\ worktrees = << >>

parseReset == git_blocks' = << >> /\ porcelain' = << >> /\ worktrees' = << >>

addInit ==
    /\ add_args = None /\ add_exists = None /\ git_calls = << >> /\ add_result = "none"
    /\ add_printed = FALSE /\ add_hooks_run = FALSE

addReset ==
    /\ add_args' = None /\ add_exists' = None /\ git_calls' = << >> /\ add_result' = "none"
    /\ add_printed' = FALSE /\ add_hooks_run' = FALSE

initInit ==
    /\ init_repo_url = << >> /\ explicit_provider = None /\ detect_result = None
    /\ warnings = << >> /\ init_result = "none"
    /\ init_env = None /\ init_steps = << >> /\ config_file = FALSE /\ init_dirs = {}

initReset ==
    /\ init_repo_url' = << >> /\ explicit_provider' = None /\ detect_result' = None
    /\ warnings' = << >> /\ init_result' = "none"
    /\ init_env' = None /\ init_steps' = << >> /\ config_file' = FALSE /\ init_dirs' = {}

authInit == auth_config = None /\ auth_result = None

authReset == auth_config' = None /\ auth_result' = None

listInit ==
    /\ list_worktrees = << >> /\ list_config = None /\ list_credentials = FALSE
    /\ repo_info = None /\ has_pr_info = FALSE
    /\ list_idx = 0 /\ display_worktrees = << >> /\ lookups = << >>
    /\ clients_used = << >> /\ responses = << >>
    /\ open_prs = << >> /\ unmatched_remote = << >> /\ tip = None /\ list_result = "none"

listReset ==
    /\ list_worktrees' = << >> /\ list_config' = None /\ list_credentials' = FALSE
    /\ repo_info' = None /\ has_pr_info' = FALSE
    /\ list_idx' = 0 /\ display_worktrees' = << >> /\ lookups' = << >>
    /\ clients_used' = << >> /\ responses' = << >>
    /\ open_prs' = << >> /\ unmatched_remote' = << >> /\ tip' = None /\ list_result' = "none"

removeInit ==
    /\ remove_env = None /\ remove_calls = << >> /\ remove_messages = << >>
    /\ remove_result = "none" /\ remove_target = None /\ remove_working_dir = None

removeReset ==
    /\ remove_env' = None /\ remove_calls' = << >> /\ remove_messages' = << >>
    /\ remove_result' = "none" /\ remove_target' = None /\ remove_working_dir' = None

clientInit == http_response = None /\ http_outcome = "none"

clientReset == http_response' = None /\ http_outcome' = "none"

fetchInit == fetch_args = None /\ fetch_result = None

fetchReset == fetch_args' = None /\ fetch_result' = None

tokenInit ==
    /\ token_sources = None /\ github_token = None /\ token_consulted = << >>
    /\ github_has_auth = FALSE

tokenReset ==
    /\ token_sources' = None /\ github_token' = None /\ token_consulted' = << >>
    /\ github_has_auth' = FALSE

hookInit == hook_args = None /\ hook_log = << >> /\ hook_result = "none"

hookReset == hook_args' = None /\ hook_log' = << >> /\ hook_result' = "none"

Init == pc = "idle" /\ parseInit /\ addInit /\ initInit /\ authInit /\ listInit
        /\ removeInit /\ clientInit /\ fetchInit /\ tokenInit /\ hookInit

\* ------------------------------------------------------------------ actions
\* git::parse_worktree_list applied to the text of a listing
ParseWorktreeList ==
    /\ pc = "idle"
    /\ \E bs \in BlockSeqs :
          /\ git_blocks' = bs
          /\ porcelain' = RenderBlocks(bs)
          /\ worktrees' = parse_worktree_list(RenderBlocks(bs))
    /\ pc' = "parsed"
    /\ UNCHANGED <<addVars, initVars, authVars, listVars, removeVars, clientVars, fetchVars, tokenVars, hookVars>>

\* git::parse_worktree_list applied to any sequence of lines
ParseLines ==
    /\ pc = "idle"
    /\ \E lines \in LineSeqs :
          /\ git_blocks' = << >>
          /\ porcelain' = lines
          /\ worktrees' = parse_worktree_list(lines)
    /\ pc' = "parsed_lines"
    /\ UNCHANGED <<addVars, initVars, authVars, listVars, removeVars, clientVars, fetchVars, tokenVars,
                   hookVars>>

\* commands/add.rs run
AddRun ==
    /\ pc = "idle"
    /\ \E a \in AddArgs :
          LET target_path == TargetPath(ProjectRoot, a.branch_name)
              exists == branch_exists(a.local_q, a.remote_q)
          IN
          /\ add_args' = Some(a)
          /\ IF a.branch_name = << >> \/ ~a.paths_ok \/ a.main_branch = None
             THEN \* bail!, determine_paths(..)? or get_main_branch(..)? returned early
                  /\ add_exists' = None /\ git_calls' = << >> /\ add_result' = "err"
                  /\ add_printed' = FALSE /\ add_hooks_run' = FALSE
             ELSE /\ add_exists' = Some(exists)
                  /\ IF ~IsOk(exists)
                     THEN /\ git_calls' = << >> /\ add_result' = "err"
                          /\ add_printed' = FALSE /\ add_hooks_run' = FALSE
                     ELSE /\ git_calls' = <<WorktreeAddArgs(OkVal(exists)[1], OkVal(exists)[2], target_path,
                                                            a.branch_name, Unwrap(a.main_branch))>>
                          /\ add_result' = AfterWorktreeAdd(a.add_ok, a.print_path, a.hooks_ok).result
                          /\ add_printed' = AfterWorktreeAdd(a.add_ok, a.print_path, a.hooks_ok).printed
                          /\ add_hooks_run' =
                                AfterWorktreeAdd(a.add_ok, a.print_path, a.hooks_ok).hooks_run
    /\ pc' = "added"
    /\ UNCHANGED <<parseVars, initVars, authVars, listVars, removeVars, clientVars, fetchVars, tokenVars, hookVars>>

\* d is what detect_repository_provider returned, steps the steps run after it
InitFinish(d, env, steps) ==
    /\ detect_result' = Some(d.result)
    /\ warnings' = d.warnings
    /\ init_steps' = InitOutcome(IsOk(d.result), env, steps).steps
    /\ init_result' = InitOutcome(IsOk(d.result), env, steps).result
    /\ config_file' = InitOutcome(IsOk(d.result), env, steps).config_file
    /\ init_dirs' = IF IsOk(d.result) THEN InitDirs(env, steps) ELSE env.dirs_before

\* commands/init.rs run: provider resolution, then clone, rename, save, hooks
InitRun ==
    /\ pc = "idle"
    /\ \E url \in RepoUrls, provider \in {None} \cup {Some(p) : p \in Providers}, env \in InitEnvs :
          /\ init_repo_url' = url
          /\ explicit_provider' = provider
          /\ init_env' = Some(InitEnv(env, extract_repo_name(url)))
          /\ InitFinish(detect_repository_provider(url, provider),
                        InitEnv(env, extract_repo_name(url)),
                        InitStepsRun(InitEnv(env, extract_repo_name(url)), InitStepNames))
    /\ pc' = "init"
    /\ UNCHANGED <<parseVars, addVars, authVars, listVars, removeVars, clientVars, fetchVars, tokenVars, hookVars>>

\* bitbucket_auth::get_auth_from_config
BitbucketGetAuthFromConfig ==
    /\ pc = "idle"
    /\ \E config \in {None} \cup {Some(u) : u \in RepoUrls} :
          /\ auth_config' = config
          /\ auth_result' = Some(bitbucket_get_auth_from_config(config))
    /\ pc' = "bitbucket_auth"
    /\ UNCHANGED <<parseVars, addVars, initVars, listVars, removeVars, clientVars, fetchVars, tokenVars, hookVars>>

\* bitbucket_data_center_auth::get_auth_from_config
DataCenterGetAuthFromConfig ==
    /\ pc = "idle"
    /\ \E config \in {None} \cup {Some(u) : u \in RepoUrls} :
          /\ auth_config' = config
          /\ auth_result' = Some(data_center_get_auth_from_config(config))
    /\ pc' = "data_center_auth"
    /\ UNCHANGED <<parseVars, addVars, initVars, listVars, removeVars, clientVars, fetchVars, tokenVars, hookVars>>

\* commands/list.rs run, up to the loop: the listing, the configuration, the clients
ListStart ==
    /\ pc = "idle"
    /\ \/ \* git::list_worktrees(..)? returned the error of `git worktree list`
          /\ pc' = "listed" /\ list_result' = "err"
          /\ UNCHANGED <<list_worktrees, list_config, list_credentials, repo_info, has_pr_info,
                         list_idx>>
       \/ \E ws \in ListWorktreeSeqs, config \in ListConfigs, credentials \in BOOLEAN :
             /\ list_worktrees' = ws
             /\ list_config' = config
             /\ list_credentials' = credentials
             /\ IF ws = << >>
                THEN \* "No worktrees found."
                     /\ pc' = "listed" /\ list_result' = "ok" /\ list_idx' = 0
                     /\ repo_info' = None /\ has_pr_info' = FALSE
                ELSE /\ pc' = "list_loop" /\ list_result' = "none" /\ list_idx' = 1
                     /\ repo_info' = RepoInfo(config, credentials).info
                     /\ has_pr_info' = HasPrInfo(RepoInfo(config, credentials))
    /\ UNCHANGED <<display_worktrees, lookups, clients_used, responses, open_prs, unmatched_remote,
                   tip>>
    /\ UNCHANGED <<parseVars, addVars, initVars, authVars, removeVars, clientVars, fetchVars, tokenVars, hookVars>>

\* one iteration of `for wt in worktrees`, the provider request included
ListStep ==
    /\ pc = "list_loop"
    /\ list_idx <= Len(list_worktrees)
    /\ LET wt == list_worktrees[list_idx]
           branch == DisplayBranch(wt)
           platform == Unwrap(repo_info)[1]
       IN  IF LooksUp(has_pr_info, wt)
           THEN \E response \in Responses(platform) :
                   /\ lookups' = Append(lookups, branch)
                   /\ clients_used' = Append(clients_used, platform)
                   /\ responses' = Append(responses, response)
                   /\ display_worktrees' =
                         AppendRow(display_worktrees,
                                   [branch |-> branch,
                                    pull_request |-> PullRequestCell(platform, branch, response)])
           ELSE /\ lookups' = lookups /\ clients_used' = clients_used /\ responses' = responses
                /\ display_worktrees' =
                      AppendRow(display_worktrees, [branch |-> branch, pull_request |-> <<"-">>])
    /\ list_idx' = list_idx + 1
    /\ UNCHANGED <<pc, list_worktrees, list_config, list_credentials, repo_info, has_pr_info,
                   open_prs, unmatched_remote, tip, list_result>>
    /\ UNCHANGED <<parseVars, addVars, initVars, authVars, removeVars, clientVars, fetchVars, tokenVars, hookVars>>

\* after the loop: the table, the remote-only pull requests, the tip
ListFinish ==
    /\ pc = "list_loop"
    /\ list_idx > Len(list_worktrees)
    /\ IF has_pr_info /\ Unwrap(repo_info)[1] = "github"
       THEN \E prs \in OpenPrSeqs :
               /\ open_prs' = prs
               /\ unmatched_remote' = UnmatchedRemote(prs, LocalBranches(list_worktrees))
       ELSE open_prs' = << >> /\ unmatched_remote' = << >>
    /\ tip' = Tip(list_config, has_pr_info)
    /\ list_result' = "ok"
    /\ pc' = "listed"
    /\ UNCHANGED <<list_worktrees, list_config, list_credentials, repo_info, has_pr_info, list_idx,
                   display_worktrees, lookups, clients_used, responses>>
    /\ UNCHANGED <<parseVars, addVars, initVars, authVars, removeVars, clientVars, fetchVars, tokenVars, hookVars>>

RemoveFinish(o) ==
    /\ remove_calls' = o.calls
    /\ remove_messages' = o.messages
    /\ remove_result' = o.result
    /\ remove_target' = o.target
    /\ remove_working_dir' = o.working_dir

\* commands/remove.rs run
RemoveRun ==
    /\ pc = "idle"
    /\ \E env \in RemoveEnvs :
          /\ remove_env' = Some(env)
          /\ RemoveFinish(remove_run(env))
    /\ pc' = "removed"
    /\ UNCHANGED <<parseVars, addVars, initVars, authVars, listVars, clientVars, fetchVars, tokenVars, hookVars>>

\* one get_pull_requests call of a provider client, from the HTTP response on
GetPullRequests ==
    /\ pc = "idle"
    /\ \E r \in HttpResponses :
          /\ http_response' = Some(r)
          /\ http_outcome' = get_pull_requests(r.client, r.status, r.body_parses)
    /\ pc' = "requested"
    /\ UNCHANGED <<parseVars, addVars, initVars, authVars, listVars, removeVars, fetchVars, tokenVars, hookVars>>

\* list_helpers::fetch_pr_for_branch for one branch
FetchPrForBranch ==
    /\ pc = "idle"
    /\ \E a \in FetchArgs :
          /\ fetch_args' = Some(a)
          /\ fetch_result' = Some(fetch_pr_for_branch(a.platform, a.client, a.branch, a.response))
    /\ pc' = "fetched"
    /\ UNCHANGED <<parseVars, addVars, initVars, authVars, listVars, removeVars, clientVars, tokenVars, hookVars>>

\* GitHubClient::new: load_token, and has_auth on the client
GitHubClientNew ==
    /\ pc = "idle"
    /\ \E src \in TokenSources :
          /\ token_sources' = Some(src)
          /\ github_token' = load_token(src.env_var, src.stored, src.now, src.gh).token
          /\ token_consulted' = load_token(src.env_var, src.stored, src.now, src.gh).consulted
          /\ github_has_auth' = has_auth(load_token(src.env_var, src.stored, src.now, src.gh).token)
    /\ pc' = "github_client"
    /\ UNCHANGED <<parseVars, addVars, initVars, authVars, listVars, removeVars, clientVars, fetchVars,
                   hookVars>>

\* hooks::execute_hooks
ExecuteHooks ==
    /\ pc = "idle"
    /\ \E a \in HookArgsSet :
          /\ hook_args' = Some(a)
          /\ hook_log' = execute_hooks(a.hook_type, a.config, a.variables, a.exits).log
          /\ hook_result' = execute_hooks(a.hook_type, a.config, a.variables, a.exits).result
    /\ pc' = "hooked"
    /\ UNCHANGED <<parseVars, addVars, initVars, authVars, listVars, removeVars, clientVars, fetchVars,
                   tokenVars>>

\* the process exits; the next invocation starts afresh
Exit ==
    /\ pc \in {"parsed", "parsed_lines", "added", "init", "bitbucket_auth", "data_center_auth", "listed", "removed", "requested",
              "fetched", "github_client", "hooked"}
    /\ pc' = "idle"
    /\ parseReset
    /\ addReset
    /\ initReset
    /\ authReset
    /\ listReset
    /\ removeReset
    /\ clientReset
    /\ fetchReset
    /\ tokenReset
    /\ hookReset

Next ==
    \/ ParseWorktreeList
    \/ ParseLines
    \/ AddRun
    \/ InitRun
    \/ BitbucketGetAuthFromConfig
    \/ DataCenterGetAuthFromConfig
    \/ ListStart
    \/ ListStep
    \/ ListFinish
    \/ RemoveRun
    \/ GetPullRequests
    \/ FetchPrForBranch
    \/ GitHubClientNew
    \/ ExecuteHooks
    \/ Exit

Spec == Init /\ [][Next]_vars

\* ------------------------------------------------------------------ properties
HasNonWhitespace(s) == \E i \in DOMAIN s : ~IsWhitespace(s[i])

AllHaveHead(bs) == \A i \in DOMAIN bs : IsSome(bs[i].head)

HasHead(b) == IsSome(b.head)

\* C1: parsing a listing whose blocks all have a `worktree` and a `HEAD` line
\* (with optional `branch` and `bare` lines) gives one Worktree per block, in
\* block order, with the path, head, branch and bare flag of its own block;
\* the empty listing gives the empty sequence.
ParserRoundTrip ==
    (pc = "parsed" /\ AllHaveHead(git_blocks)) =>
        /\ Len(worktrees) = Len(git_blocks)
        /\ \A i \in DOMAIN git_blocks :
              /\ worktrees[i].path = git_blocks[i].path
              /\ worktrees[i].head = Unwrap(git_blocks[i].head)
              /\ worktrees[i].branch = git_blocks[i].branch
              /\ worktrees[i].bare = git_blocks[i].bare

ParserRoundTripWitness ==
    /\ pc = "parsed"
    /\ Len(git_blocks) = 2
    /\ AllHaveHead(git_blocks)
    /\ git_blocks[1].bare /\ git_blocks[1].branch = None
    /\ ~git_blocks[2].bare /\ git_blocks[2].branch = Some(<<"r","e","f","s","/","h","e","a","d","s","/","x">>)
    /\ git_blocks[1].head # git_blocks[2].head
    /\ Len(worktrees) = 2
    /\ worktrees[2].branch = Some(<<"r","e","f","s","/","h","e","a","d","s","/","x">>)

\* C2: a block without a `HEAD` line produces no Worktree and leaves the
\* records of the other blocks as they are; a block without a `branch` line
\* gives branch None (which is not Some of the empty string).
HeadlessBlockDropped ==
    pc = "parsed" =>
        LET kept == SelectSeq(git_blocks, HasHead) IN
        /\ Len(worktrees) = Len(kept)
        /\ \A i \in DOMAIN kept :
              /\ worktrees[i].path = kept[i].path
              /\ worktrees[i].head = Unwrap(kept[i].head)
              /\ worktrees[i].bare = kept[i].bare
              /\ (kept[i].branch = None) =>
                    (worktrees[i].branch = None /\ worktrees[i].branch # Some(<< >>))

HeadlessBlockDroppedWitness ==
    /\ pc = "parsed"
    /\ Len(git_blocks) = 2
    /\ git_blocks[1].head = None
    /\ git_blocks[1].branch # None
    /\ IsSome(git_blocks[2].head)
    /\ git_blocks[2].branch = None
    /\ Len(worktrees) = 1
    /\ worktrees[1].path = git_blocks[2].path
    /\ worktrees[1].branch = None

\* C3: add runs exactly one `git worktree add`, chosen from (local, remote) of
\* branch_exists: local -> check out the existing branch; else remote ->
\* `-b <branch> origin/<branch>`; else `--no-track ... -b <branch>
\* origin/<mainBranch>`; `--no-track` appears in the third case only.
AddStrategyPriority ==
    (pc = "added" /\ IsSome(add_exists)) =>
        LET a == Unwrap(add_args)
            local == OkVal(Unwrap(add_exists))[1]
            remote == OkVal(Unwrap(add_exists))[2]
            target == <<"/","p","/">> \o a.branch_name
        IN
        /\ Len(git_calls) = 1
        /\ local => git_calls[1] = <<<<"w","o","r","k","t","r","e","e">>, <<"a","d","d">>, target, a.branch_name>>
        /\ (~local /\ remote) =>
              git_calls[1] = <<<<"w","o","r","k","t","r","e","e">>, <<"a","d","d">>, target, <<"-","b">>, a.branch_name,
                               <<"o","r","i","g","i","n","/">> \o a.branch_name>>
        /\ (~local /\ ~remote) =>
              git_calls[1] = <<<<"w","o","r","k","t","r","e","e">>, <<"a","d","d">>, <<"-","-","n","o","-","t","r","a","c","k">>, target, <<"-","b">>, a.branch_name,
                               <<"o","r","i","g","i","n","/">> \o Unwrap(a.main_branch)>>
        /\ (\E i \in DOMAIN git_calls[1] : git_calls[1][i] = <<"-","-","n","o","-","t","r","a","c","k">>) <=> (~local /\ ~remote)

AddStrategyPriorityWitness ==
    /\ pc = "added"
    /\ IsSome(add_exists)
    /\ OkVal(Unwrap(add_exists)) = <<TRUE, TRUE>>
    /\ Unwrap(add_args).branch_name = <<"f","i","x","/","y">>
    /\ git_calls = << <<<<"w","o","r","k","t","r","e","e">>, <<"a","d","d">>, <<"/","p","/","f","i","x","/","y">>, <<"f","i","x","/","y">>>> >>

\* C4: branch_exists never fails; each side is true exactly when its own query
\* succeeded and printed something, and a failed query makes that side false
\* without touching the other.
BranchExistsBestEffort ==
    (pc = "added" /\ IsSome(add_exists)) =>
        LET a == Unwrap(add_args) IN
        /\ IsOk(Unwrap(add_exists))
        /\ OkVal(Unwrap(add_exists))[1] = (a.local_q.success /\ HasNonWhitespace(a.local_q.stdout))
        /\ OkVal(Unwrap(add_exists))[2] = (a.remote_q.success /\ HasNonWhitespace(a.remote_q.stdout))

BranchExistsBestEffortWitness ==
    /\ pc = "added"
    /\ IsSome(add_exists)
    /\ ~Unwrap(add_args).local_q.success
    /\ Unwrap(add_args).remote_q.success
    /\ Unwrap(add_args).remote_q.stdout # << >>
    /\ Unwrap(add_exists) = Ok(<<FALSE, TRUE>>)

DcLiteralUrl == <<"h","t","t","p","s",":","/","/","g","i","t",".","a","c","m","e",".","c","o","m","/","s","c","m","/","W","I","D","/","w","i","d","g","e","t","s",".","g","i","t">>

AcmeWidgets == <<<<"a","c","m","e">>, <<"w","i","d","g","e","t","s">>>>

DataCenterInfoFromShape ==
    (pc = "data_center_auth" /\ IsSome(auth_config)) =>
        /\ \A sh \in DcShapes, h \in DcHosts, p \in DcProjects, r \in DcRepos, x \in GitSuffixes :
              Unwrap(auth_config) = DcUrl(sh, h, p, r, x) =>
                 Unwrap(auth_result) = Ok(<<<<"h","t","t","p","s",":","/","/">> \o h, p, r>>)
        /\ Unwrap(auth_config) \in {<<"h","t","t","p","s",":","/","/","g","i","t","l","a","b",".","c","o","m","/","a","c","m","e","/","w","i","d","g","e","t","s">>, <<"/","s","r","v","/","g","i","t","/","w","i","d","g","e","t","s">>} =>
              Unwrap(auth_result) = Err

\* C7: with an explicit provider the resolution succeeds with that provider;
\* a warning is printed exactly when the URL detects to another provider;
\* the resolution fails only without an explicit provider on a URL that
\* matches no provider.
ExplicitProviderWins ==
    pc = "init" =>
        LET detected ==
                IF \/ StartsWith(init_repo_url, <<"h","t","t","p","s",":","/","/","g","i","t","h","u","b",".","c","o","m","/","a","c","m","e","/">>)
                   \/ StartsWith(init_repo_url, <<"g","i","t","@","g","i","t","h","u","b",".","c","o","m",":","a","c","m","e","/">>)
                THEN Some("Github")
                ELSE IF \E i \in DOMAIN init_repo_url : LitAt(init_repo_url, i, <<"b","i","t","b","u","c","k","e","t",".","o","r","g">>)
                THEN Some("BitbucketCloud")
                ELSE None
        IN
        /\ IsSome(explicit_provider) =>
              /\ Unwrap(detect_result) = Ok(Unwrap(explicit_provider))
              /\ (IsSome(detected) /\ Unwrap(detected) # Unwrap(explicit_provider))
                    => warnings = << <<Unwrap(detected), Unwrap(explicit_provider)>> >>
              /\ (detected = None \/ detected = explicit_provider) => warnings = << >>
        /\ explicit_provider = None => warnings = << >>
        /\ (Unwrap(detect_result) = Err) <=> (explicit_provider = None /\ detected = None)

ExplicitProviderWinsWitness ==
    /\ pc = "init"
    /\ explicit_provider = Some("BitbucketDataCenter")
    /\ init_repo_url = <<"h","t","t","p","s",":","/","/","g","i","t","h","u","b",".","c","o","m","/","a","c","m","e","/","w","i","d","g","e","t","s",".","g","i","t">>
    /\ detect_result = Some(Ok("BitbucketDataCenter"))
    /\ warnings = << <<"Github", "BitbucketDataCenter">> >>
    /\ init_result = "ok"

\* C8: Data Center auth resolution fails for every configured URL that holds
\* `bitbucket.org`, Bitbucket Cloud auth resolution fails for every configured
\* URL that does not, so no configured URL resolves under both.
CloudAndDataCenterExclusive ==
    /\ (pc = "data_center_auth" /\ IsSome(auth_config)) =>
          /\ (\E i \in DOMAIN Unwrap(auth_config) : LitAt(Unwrap(auth_config), i, <<"b","i","t","b","u","c","k","e","t",".","o","r","g">>))
                => Unwrap(auth_result) = Err
          /\ IsOk(Unwrap(auth_result)) => ~IsOk(bitbucket_get_auth_from_config(auth_config))
    /\ (pc = "bitbucket_auth" /\ IsSome(auth_config)) =>
          /\ ~(\E i \in DOMAIN Unwrap(auth_config) : LitAt(Unwrap(auth_config), i, <<"b","i","t","b","u","c","k","e","t",".","o","r","g">>))
                => Unwrap(auth_result) = Err
          /\ IsOk(Unwrap(auth_result)) => ~IsOk(data_center_get_auth_from_config(auth_config))

CloudAndDataCenterExclusiveWitness ==
    /\ pc = "data_center_auth"
    /\ auth_config = Some(<<"g","i","t","@","b","i","t","b","u","c","k","e","t",".","o","r","g",":","a","c","m","e","/","w","i","d","g","e","t","s",".","g","i","t">>)
    /\ auth_result = Some(Err)
    /\ extract_bitbucket_data_center_info_from_url(Unwrap(auth_config)) # None

\* the branch reference without its refs/heads/ prefix
Cleaned(ref) == IF IsSome(StripPrefix(ref, <<"r","e","f","s","/","h","e","a","d","s","/">>)) THEN Unwrap(StripPrefix(ref, <<"r","e","f","s","/","h","e","a","d","s","/">>)) ELSE ref

NonBareIndexes(ws) == SelectSeq([i \in 1..Len(ws) |-> i], LAMBDA i : ~ws[i].bare)

IsolatedLookupFailure ==
    (pc = "listed" /\ has_pr_info) =>
        LET nb == NonBareIndexes(list_worktrees) IN
        /\ list_result = "ok"
        /\ Len(display_worktrees) = Len(list_worktrees)
        /\ Len(responses) = Len(nb)
        /\ \A k \in DOMAIN responses :
              LET row == display_worktrees[nb[k]] IN
              /\ (row.pull_request = <<"?">>) <=> ~IsOk(responses[k])
              /\ IsOk(responses[k]) =>
                    row.pull_request = PullRequestCell(repo_info[1][1], row.branch, responses[k])

IsolatedLookupFailureWitness ==
    /\ pc = "listed"
    /\ list_result = "ok"
    /\ Len(list_worktrees) = 2
    /\ responses = <<Err, Ok(<<GithubPr(<<"o","p","e","n">>, FALSE, <<"5">>)>>)>>
    /\ display_worktrees =
          <<[branch |-> <<"x">>, pull_request |-> <<"?">>],
            [branch |-> <<"y">>, pull_request |-> <<"h","t","t","p","s",":","/","/","g","i","t","h","u","b",".","c","o","m","/","a","c","m","e","/","w","i","d","g","e","t","s","/","p","u","l","l","/","5"," ","(","O","P","E","N",")">>]>>

\* C12: when a configuration is found but the platform has no credentials or
\* no provider client (has_pr_info is false), list issues no provider request,
\* every row shows `-`, the tip of the configured platform is printed, and
\* the command succeeds.
BestEffortEnrichment ==
    (pc = "listed" /\ list_worktrees # << >> /\ list_config # None) =>
        /\ (~list_credentials \/ repo_info = None) => ~has_pr_info
        /\ ~has_pr_info =>
              /\ lookups = << >> /\ responses = << >>
              /\ Len(display_worktrees) = Len(list_worktrees)
              /\ \A i \in DOMAIN display_worktrees : display_worktrees[i].pull_request = <<"-">>
              /\ tip \in {Some("github"), Some("bitbucket-cloud"), Some("bitbucket-data-center")}
              /\ tip = Some(list_config[1].source_control)
              /\ list_result = "ok"

BestEffortEnrichmentWitness ==
    /\ pc = "listed"
    /\ Len(list_worktrees) = 2
    /\ ~list_worktrees[1].bare /\ ~list_worktrees[2].bare
    /\ list_config = Some([source_control |-> "bitbucket-cloud",
                           repository_url |-> <<"g","i","t","@","b","i","t","b","u","c","k","e","t",".","o","r","g",":","a","c","m","e","/","w","i","d","g","e","t","s",".","g","i","t">>])
    /\ ~list_credentials
    /\ repo_info = Some(<<"bitbucket-cloud", <<"a","c","m","e">>, <<"w","i","d","g","e","t","s">>>>)
    /\ lookups = << >>
    /\ tip = Some("bitbucket-cloud")
    /\ list_result = "ok"

\* the status the rule gives: DRAFT for a draft; else OPEN, CLOSED or MERGED
\* for a state that is one of them whatever its case; else the state uppercased
NormalizedStatus(draft, state) ==
    IF draft THEN <<"D","R","A","F","T">>
    ELSE IF \E known \in {<<"O","P","E","N">>, <<"C","L","O","S","E","D">>, <<"M","E","R","G","E","D">>} : ToUppercase(state) = known
    THEN CHOOSE known \in {<<"O","P","E","N">>, <<"C","L","O","S","E","D">>, <<"M","E","R","G","E","D">>} : ToUppercase(state) = known
    ELSE ToUppercase(state)

\* C13: for every (draft, state) pair of a GitHub pull request, the status
\* computed by fetch_github_pr and the one computed inline by list are both
\* the normalized status: DRAFT when draft, else OPEN/CLOSED/MERGED case-
\* insensitively, else the state uppercased.
StatusNormalization ==
    /\ (pc = "fetched" /\ fetch_args[1].platform = "github" /\ fetch_args[1].client
           /\ IsOk(fetch_args[1].response) /\ OkVal(fetch_args[1].response) # << >>) =>
          LET pr == OkVal(fetch_args[1].response)[1] IN
          /\ fetch_result[1] =
                Ok(Some(PullRequestInfo(pr.html_url, NormalizedStatus(pr.draft, pr.state))))
          /\ GithubStatusText(pr) = OkVal(fetch_result[1])[1].status
    /\ (pc \in {"list_loop", "listed"} /\ has_pr_info /\ repo_info[1][1] = "github") =>
          LET nb == NonBareIndexes(list_worktrees) IN
          \A k \in DOMAIN responses :
              (IsOk(responses[k]) /\ OkVal(responses[k]) # << >>) =>
                  LET pr == OkVal(responses[k])[1] IN
                  display_worktrees[nb[k]].pull_request =
                      pr.html_url \o <<" ","(">> \o NormalizedStatus(pr.draft, pr.state) \o <<")">>

StatusNormalizationWitness ==
    /\ pc = "fetched"
    /\ fetch_args[1].platform = "github"
    /\ fetch_args[1].response = Ok(<<GithubPr(<<"C","l","o","s","e","d">>, FALSE, <<"5">>)>>)
    /\ fetch_result[1] =
          Ok(Some(PullRequestInfo(<<"h","t","t","p","s",":","/","/","g","i","t","h","u","b",".","c","o","m","/","a","c","m","e","/","w","i","d","g","e","t","s","/","p","u","l","l","/","5">>, <<"C","L","O","S","E","D">>)))

Min(S) == CHOOSE i \in S : \A j \in S : i <= j

\* the pull request reported for a branch: the first of the answer (GitHub,
\* whose answer is per branch), the first with that source branch (Bitbucket)
ReportedPr(platform, prs, branch) ==
    LET matching == IF platform = "github" THEN DOMAIN prs
                    ELSE {i \in DOMAIN prs : prs[i].source = branch}
    IN  IF matching = {} THEN None ELSE Some(prs[Min(matching)])

ReportedCell(platform, prs, branch) ==
    LET pr == ReportedPr(platform, prs, branch) IN
    IF pr = None THEN <<"-">>
    ELSE IF platform = "github"
    THEN pr[1].html_url \o <<" ","(">> \o NormalizedStatus(pr[1].draft, pr[1].state) \o <<")">>
    ELSE (IF pr[1].href = None THEN <<"P","R"," ","#">> \o pr[1].id ELSE pr[1].href[1])
             \o <<" ","(">> \o ToUppercase(pr[1].state) \o <<")">>

\* C14: of several pull requests returned for a worktree's branch the first
\* in the provider's order is reported, by list and by fetch_pr_for_branch;
\* an empty answer or one without the branch gives no pull request.
FirstPrSelected ==
    /\ (pc \in {"list_loop", "listed"} /\ has_pr_info) =>
          LET nb == NonBareIndexes(list_worktrees) IN
          \A k \in DOMAIN responses :
              IsOk(responses[k]) =>
                  display_worktrees[nb[k]].pull_request =
                      ReportedCell(repo_info[1][1], OkVal(responses[k]), lookups[k])
    /\ (pc = "fetched" /\ fetch_args[1].client /\ IsOk(fetch_args[1].response)
           /\ fetch_args[1].platform # "gitlab") =>
          /\ IsOk(fetch_result[1])
          /\ format_pr_display(OkVal(fetch_result[1])) =
                ReportedCell(fetch_args[1].platform, OkVal(fetch_args[1].response),
                             fetch_args[1].branch)

FirstPrSelectedWitness ==
    /\ pc = "listed"
    /\ repo_info = Some(<<"bitbucket-cloud", <<"a","c","m","e">>, <<"w","i","d","g","e","t","s">>>>)
    /\ Len(list_worktrees) = 2
    /\ lookups = <<<<"x">>, <<"y">>>>
    /\ Len(responses) = 2 /\ IsOk(responses[1])
    /\ Len(OkVal(responses[1])) = 3 /\ responses[2] = responses[1]
    /\ display_worktrees =
          <<[branch |-> <<"x">>,
             pull_request |-> <<"h","t","t","p","s",":","/","/","b","i","t","b","u","c","k","e","t",".","o","r","g","/","a","c","m","e","/","w","i","d","g","e","t","s","/","p","u","l","l","-","r","e","q","u","e","s","t","s","/","4"," ","(","M","E","R","G","E","D",")">>],
            [branch |-> <<"y">>, pull_request |-> <<"-">>]>>

\* C20: add issues at most one `worktree add` per run; when it fails add
\* returns the error with no second invocation (no other strategy, no
\* rollback), no success output and no postAdd hook.
AddIsNotATransaction ==
    pc = "added" =>
        /\ Len(git_calls) <= 1
        /\ (Len(git_calls) = 1 /\ ~add_args[1].add_ok) =>
              /\ add_result = "err"
              /\ ~add_printed
              /\ ~add_hooks_run

AddIsNotATransactionWitness ==
    /\ pc = "added"
    /\ Len(git_calls) = 1
    /\ git_calls[1][3] = <<"-","-","n","o","-","t","r","a","c","k">>
    /\ ~add_args[1].add_ok /\ add_args[1].hooks_ok /\ ~add_args[1].print_path
    /\ add_result = "err"
    /\ ~add_printed /\ ~add_hooks_run

\* C17: init writes git-worktree-config.yaml only after provider detection,
\* the clone, the default-branch query and the rename have all succeeded;
\* when any of them fails init fails without writing it, so that a project
\* root that had no config file has none afterwards.
ConfigOnlyAfterSuccess ==
    pc = "init" =>
        LET env == init_env[1]
            saved == \E i \in DOMAIN init_steps : init_steps[i] = "save"
            all_ok == /\ IsOk(detect_result[1]) /\ env.clone_ok /\ env.branch_ok /\ env.rename_ok
        IN
        /\ saved => all_ok
        /\ ~all_ok =>
              /\ init_result = "err"
              /\ ~saved
              /\ config_file = env.config_before
              /\ ~env.config_before => ~config_file

ConfigOnlyAfterSuccessWitness ==
    /\ pc = "init"
    /\ IsOk(detect_result[1])
    /\ init_env[1].clone_ok /\ ~init_env[1].branch_ok /\ init_env[1].save = "ok"
    /\ ~init_env[1].config_before
    /\ init_steps = <<"prepare", "clone", "default_branch">>
    /\ init_result = "err"
    /\ ~config_file

\* whether some git invocation of the finished run exited with failure
GitFailed ==
    \/ pc = "added" /\ add_exists # None
          /\ (~add_args[1].local_q.success \/ ~add_args[1].remote_q.success
                 \/ ~add_args[1].add_ok)
    \/ pc = "removed" /\ \E i \in DOMAIN remove_calls : ~remove_calls[i].success
    \/ pc = "init" /\ \E i \in DOMAIN init_steps :
                          /\ init_steps[i] \in {"clone", "default_branch"}
                          /\ ~InitStepOk(init_env[1], init_steps[i])
    \/ pc = "listed" /\ list_result = "err"

CommandResult ==
    CASE pc = "added" -> add_result
      [] pc = "removed" -> remove_result
      [] pc = "init" -> init_result
      [] pc = "listed" -> list_result
      [] OTHER -> "none"

\* C15 (as stated): whenever a git invocation fails, the command aborts with
\* an error.
GitFailureAlwaysAborts == GitFailed => CommandResult = "err"

\* C15 (amended): a failed git invocation aborts the command, except the two
\* branch-existence queries of add, whose failure counts as "does not exist"
\* and lets add go on to `worktree add`, and the branch deletion of remove
\* (`branch -d`, `branch -D`), whose failure is printed after the worktree is
\* removed while remove goes on to its hooks and succeeds.
GitFailureHandling ==
    /\ (pc = "added" /\ add_exists # None) =>
          LET a == add_args[1] IN
          /\ ~a.local_q.success => ~OkVal(add_exists[1])[1]
          /\ ~a.remote_q.success => ~OkVal(add_exists[1])[2]
          /\ Len(git_calls) = 1
          /\ ~a.add_ok => add_result = "err"
          /\ a.add_ok => (add_result = "ok" <=> (a.print_path \/ a.hooks_ok))
    /\ pc = "removed" =>
          \A i \in DOMAIN remove_calls :
              ~remove_calls[i].success =>
                  IF remove_calls[i].cmd \in {"branch -d", "branch -D"}
                  THEN /\ \E k \in DOMAIN remove_messages :
                             remove_messages[k] \in {"unmerged", "failed to delete"}
                       /\ remove_result = "ok" <=> remove_env[1].hooks_ok
                  ELSE remove_result = "err" /\ i = Len(remove_calls)
    /\ (pc \in {"init", "listed"} /\ GitFailed) => CommandResult = "err"

GitFailureHandlingWitness ==
    /\ pc = "removed"
    /\ remove_calls = <<GitCall("worktree list", TRUE), GitCall("worktree remove", TRUE),
                        GitCall("branch -d", FALSE)>>
    /\ remove_messages = <<"confirm?", "removed", "failed to delete">>
    /\ remove_result = "ok"

\* C16: each provider client maps the HTTP status to success for 2xx (the
\* body being the expected JSON), the authentication error for 401, the
\* not-found error for 404 and the generic status error for every other
\* non-2xx status, 5xx included.
FourHttpOutcomes ==
    pc = "requested" =>
        LET r == http_response[1] IN
        /\ (IsSuccess(r.status) /\ r.body_parses) => http_outcome = "ok"
        /\ r.status = 401 => http_outcome = "auth"
        /\ r.status = 404 => http_outcome = "not_found"
        /\ (~IsSuccess(r.status) /\ r.status \notin {401, 404}) => http_outcome = "status"

\* C18: with sourceControl bitbucket-data-center and a repository URL of no
\* Data Center shape (and not of bitbucket.org), Data Center resolution
\* succeeds through the URL's bare host, so list has an identity and, with
\* credentials, a client.
DataCenterHostFallback ==
    /\ (/\ pc = "data_center_auth" /\ auth_config # None
        /\ ~Contains(auth_config[1], <<"b","i","t","b","u","c","k","e","t",".","o","r","g">>)
        /\ extract_bitbucket_data_center_info_from_url(auth_config[1]) = None)
          => IsOk(auth_result[1])
    /\ (/\ pc \in {"list_loop", "listed"} /\ list_worktrees # << >> /\ list_config # None
        /\ list_config[1].source_control = "bitbucket-data-center"
        /\ ~Contains(list_config[1].repository_url, <<"b","i","t","b","u","c","k","e","t",".","o","r","g">>)
        /\ extract_bitbucket_data_center_info_from_url(list_config[1].repository_url) = None)
          => /\ repo_info # None
             /\ list_credentials => has_pr_info

\* C19: whenever list has a provider identity, its scope and its repository
\* slug are non-empty, and every provider request of the run goes through
\* the client of that one platform.
IdentityNonEmpty ==
    pc \in {"list_loop", "listed"} =>
        /\ repo_info # None =>
              /\ repo_info[1][1] \in Clients
              /\ repo_info[1][2] # << >>
              /\ repo_info[1][3] # << >>
        /\ Len(clients_used) = Len(lookups)
        /\ \A k \in DOMAIN clients_used : repo_info # None /\ clients_used[k] = repo_info[1][1]

IdentityNonEmptyWitness ==
    /\ pc = "listed"
    /\ list_config = Some([source_control |-> "bitbucket-data-center",
                           repository_url |-> <<"h","t","t","p","s",":","/","/","g","i","t",".","a","c","m","e",".","c","o","m","/","s","c","m","/","W","I","D","/","w","i","d","g","e","t","s",".","g","i","t">>])
    /\ repo_info = Some(<<"bitbucket-data-center", <<"W","I","D">>, <<"w","i","d","g","e","t","s">>>>)
    /\ clients_used = <<"bitbucket-data-center", "bitbucket-data-center">>

\* ------------------------------------------------------------------ remove
\* remove issued the git command
Issued(cmd) == \E i \in DOMAIN remove_calls : remove_calls[i].cmd = cmd

\* the answers that read y or yes once trimmed and lower-cased
YesAnswers == {<<"y","\n">>, <<"Y","E","S","\n">>, <<" ","Y","e","s"," ","\n">>}

\* remove got as far as a successful `worktree remove`
WorktreeRemoved == pc = "removed" /\ GitCall("worktree remove", TRUE) \in {remove_calls[i] : i \in DOMAIN remove_calls}

\* C21: after the worktree is removed the branch is deleted in two steps: a
\* safe delete (`branch -d`) always comes first; a forced delete (`branch -D`)
\* follows exactly when the safe delete failed with "not fully merged" and
\* the user answered y or yes; any other failure of the safe delete, or any
\* other answer, never leads to a forced delete.
TwoStepBranchDeletion ==
    pc = "removed" =>
        LET env == remove_env[1] IN
        /\ \A i \in DOMAIN remove_calls :
              remove_calls[i].cmd = "branch -D" =>
                  /\ i > 1 /\ remove_calls[i - 1] = GitCall("branch -d", FALSE)
                  /\ env.delete = "unmerged"
                  /\ env.force_input \in YesAnswers
        /\ \A i \in DOMAIN remove_calls :
              remove_calls[i].cmd = "branch -d" =>
                  /\ i > 1 /\ remove_calls[i - 1] = GitCall("worktree remove", TRUE)
                  /\ (env.delete = "unmerged" /\ env.force_input \in YesAnswers)
                        => (i < Len(remove_calls) /\ remove_calls[i + 1].cmd = "branch -D")
                  /\ remove_calls[i].success <=> env.delete = "ok"

TwoStepBranchDeletionWitness ==
    /\ pc = "removed"
    /\ remove_env[1].force_input = <<" ","Y","e","s"," ","\n">>
    /\ Issued("branch -D")
    /\ remove_result = "ok"

\* C23: when the resolved target is the bare repository entry, remove fails
\* before the confirmation prompt and before any `worktree remove` or
\* `branch -d` / `branch -D`.
BareNeverRemoved ==
    (pc = "removed" /\ remove_target # None /\ remove_target[1].bare) =>
        /\ remove_result = "err"
        /\ remove_messages = << >>
        /\ ~Issued("worktree remove") /\ ~Issued("branch -d") /\ ~Issued("branch -D")

BareNeverRemovedWitness ==
    /\ pc = "removed"
    /\ remove_target # None /\ remove_target[1].bare
    /\ remove_env[1].branch_name = Some(<<"r","e","p","o">>)
    /\ remove_env[1].input = <<"y","\n">>
    /\ Len(remove_env[1].worktrees) = 2
    /\ remove_result = "err"

\* C24: `worktree remove` and the branch deletion are issued only after the
\* confirmation was answered y or yes (trimmed, any case); after any other
\* answer remove issues no state-changing git command and returns success.
RemoveOnlyAfterConfirmation ==
    pc = "removed" =>
        /\ (Issued("worktree remove") \/ Issued("branch -d") \/ Issued("branch -D"))
              => remove_env[1].input \in YesAnswers
        /\ (remove_target # None /\ ~remove_target[1].bare
            /\ remove_env[1].input \notin YesAnswers) =>
              /\ remove_result = "ok"
              /\ remove_messages = <<"confirm?", "cancelled">>
              /\ \A i \in DOMAIN remove_calls :
                    remove_calls[i].cmd \in {"rev-parse", "worktree list"}

RemoveOnlyAfterConfirmationWitness ==
    /\ pc = "removed"
    /\ remove_env[1].input = <<"y","e","s"," ","p","l","e","a","s","e","\n">>
    /\ remove_target # None
    /\ remove_messages = <<"confirm?", "cancelled">>
    /\ remove_result = "ok"

\* the target's display branch is main, master, dev or develop
TargetOnMainBranch ==
    remove_target[1].branch \in
        {Some(<<"r","e","f","s","/","h","e","a","d","s","/","m","a","i","n">>), Some(<<"r","e","f","s","/","h","e","a","d","s","/","m","a","s","t","e","r">>), Some(<<"r","e","f","s","/","h","e","a","d","s","/","d","e","v">>),
         Some(<<"r","e","f","s","/","h","e","a","d","s","/","d","e","v","e","l","o","p">>), Some(<<"m","a","i","n">>), Some(<<"m","a","s","t","e","r">>), Some(<<"d","e","v">>),
         Some(<<"d","e","v","e","l","o","p">>)}

\* C25: for a target whose display branch is main, master, dev or develop
\* the worktree is removed and no `branch -d` / `branch -D` is issued; for
\* every other display branch the safe delete is attempted once the worktree
\* is removed.
MainBranchesPreserved ==
    pc = "removed" =>
        /\ (remove_target # None /\ TargetOnMainBranch)
              => ~Issued("branch -d") /\ ~Issued("branch -D")
        /\ WorktreeRemoved =>
              IF TargetOnMainBranch
              THEN remove_messages = <<"confirm?", "removed", "preserved">>
              ELSE Issued("branch -d")

MainBranchesPreservedWitness ==
    /\ WorktreeRemoved
    /\ remove_target[1].branch = Some(<<"r","e","f","s","/","h","e","a","d","s","/","d","e","v","e","l","o","p">>)
    /\ remove_messages = <<"confirm?", "removed", "preserved">>
    /\ remove_result = "ok"

\* the listed worktrees other than the target, and those of them on a main branch
OtherThanTarget ==
    {i \in DOMAIN remove_env[1].worktrees :
        remove_env[1].worktrees[i].path # remove_target[1].path}

OtherOnMainBranch ==
    {i \in OtherThanTarget :
        remove_env[1].worktrees[i].branch \in
            {Some(<<"r","e","f","s","/","h","e","a","d","s","/","m","a","i","n">>), Some(<<"r","e","f","s","/","h","e","a","d","s","/","m","a","s","t","e","r">>), Some(<<"r","e","f","s","/","h","e","a","d","s","/","d","e","v">>),
             Some(<<"r","e","f","s","/","h","e","a","d","s","/","d","e","v","e","l","o","p">>)}}

\* C26: the git commands of remove run from a listed worktree other than the
\* target: the first other one on main, master, dev or develop if there is
\* one, else the first other one; with the target as the only entry no
\* `worktree remove` is issued, and a confirmed remove fails.
WorkingDirIsAnotherWorktree ==
    pc = "removed" =>
        /\ Issued("worktree remove") =>
              /\ remove_working_dir # None
              /\ \E i \in OtherThanTarget :
                    /\ remove_working_dir[1] = remove_env[1].worktrees[i]
                    /\ IF OtherOnMainBranch # {}
                       THEN i \in OtherOnMainBranch /\ \A j \in OtherOnMainBranch : i <= j
                       ELSE \A j \in OtherThanTarget : i <= j
        /\ (remove_target # None /\ Len(remove_env[1].worktrees) = 1) =>
              ~Issued("worktree remove")
        /\ (remove_target # None /\ Len(remove_env[1].worktrees) = 1
            /\ remove_env[1].input \in YesAnswers) =>
              remove_result = "err"

WorkingDirIsAnotherWorktreeWitness ==
    /\ pc = "removed"
    /\ Issued("worktree remove")
    /\ Len(remove_env[1].worktrees) = 3
    /\ remove_target[1] = remove_env[1].worktrees[1]
    /\ remove_working_dir[1] = remove_env[1].worktrees[3]

\* the listed worktrees whose cleaned branch is the argument, and those whose
\* directory name is the argument
BranchMatches(arg) ==
    {i \in DOMAIN remove_env[1].worktrees :
        remove_env[1].worktrees[i].branch \in {Some(<<"r","e","f","s","/","h","e","a","d","s","/">> \o arg), Some(arg)}}

DirectoryMatches(arg) ==
    {i \in DOMAIN remove_env[1].worktrees :
        LET path == remove_env[1].worktrees[i].path IN
        /\ Len(path) > Len(arg)
        /\ SubSeq(path, Len(path) - Len(arg), Len(path)) = <<"/">> \o arg}

\* C27: remove resolves its argument by cleaned branch name first (the first
\* listed worktree on that branch, even when another worktree's directory has
\* that name), by directory name only when no branch matches, and fails
\* without a state-changing git command when neither matches.
TargetByBranchThenDirectory ==
    (pc = "removed" /\ remove_env[1].branch_name # None /\ Issued("worktree list")
     /\ remove_env[1].list_ok /\ remove_env[1].worktrees # << >>) =>
        LET arg == remove_env[1].branch_name[1]
            ws == remove_env[1].worktrees IN
        IF BranchMatches(arg) # {}
        THEN \E i \in BranchMatches(arg) :
                remove_target = Some(ws[i]) /\ \A j \in BranchMatches(arg) : i <= j
        ELSE IF DirectoryMatches(arg) # {}
        THEN \E i \in DirectoryMatches(arg) :
                remove_target = Some(ws[i]) /\ \A j \in DirectoryMatches(arg) : i <= j
        ELSE /\ remove_target = None
             /\ remove_result = "err"
             /\ \A i \in DOMAIN remove_calls :
                   remove_calls[i].cmd \in {"rev-parse", "worktree list"}

TargetByBranchThenDirectoryWitness ==
    /\ pc = "removed"
    /\ remove_env[1].branch_name = Some(<<"f","e","a","t">>)
    /\ Len(remove_env[1].worktrees) = 3
    /\ remove_env[1].worktrees[1].path = <<"/","q","/","f","e","a","t">>
    /\ remove_target = Some(remove_env[1].worktrees[3])
    /\ remove_target[1].path = <<"/","q","/","t","w","o">>
    /\ Issued("worktree remove")

\* ------------------------------------------------------------------ GitHub credentials
\* the sources that hold a token: a set and non-empty GITHUB_TOKEN, a stored
\* token that has no expiry or expires later than now, a `gh auth token`
\* that ran, succeeded and printed something
EnvYields == token_sources[1].env_var \notin {None, Some(<< >>)}

StoredYields ==
    /\ token_sources[1].stored # Err
    /\ token_sources[1].stored[2].expires_at \in {None, Some(token_sources[1].now + 1)}

GhYields == token_sources[1].gh = GhOutcome(TRUE, TRUE, TRUE, <<"g","h","t","o","k","\n">>)

\* C22: the GitHub token comes from GITHUB_TOKEN, else from the stored OAuth
\* token, else from the gh CLI; the first source holding a token decides and
\* the later ones are not consulted; an empty variable and an expired stored
\* token count as absent; has_auth is true exactly when a source held a token.
TokenSourceOrder ==
    pc = "github_client" =>
        /\ EnvYields =>
              /\ github_token = token_sources[1].env_var
              /\ token_consulted = <<"env">>
        /\ (~EnvYields /\ StoredYields) =>
              /\ github_token = Some(token_sources[1].stored[2].access_token)
              /\ token_consulted = <<"env", "stored">>
        /\ (~EnvYields /\ ~StoredYields) =>
              /\ github_token = IF GhYields THEN Some(<<"g","h","t","o","k">>) ELSE None
              /\ token_consulted = <<"env", "stored", "gh">>
        /\ github_has_auth <=> (EnvYields \/ StoredYields \/ GhYields)

TokenSourceOrderWitness ==
    /\ pc = "github_client"
    /\ token_sources[1].env_var = Some(<< >>)
    /\ token_sources[1].stored = Ok(AuthToken(<<"s","t","o","r","e","d">>, Some(Now)))
    /\ GhYields
    /\ github_token = Some(<<"g","h","t","o","k">>)
    /\ github_has_auth

\* ------------------------------------------------------------------ hooks
\* the commands configured for the hook type of the run
ConfiguredHooks ==
    LET hooks == hook_args[1].config[2][1].hooks[1] IN
    CASE hook_args[1].hook_type = "postAdd" -> hooks.post_add[1]
      [] hook_args[1].hook_type = "postRemove" -> hooks.post_remove[1]
      [] hook_args[1].hook_type = "postInit" -> hooks.post_init[1]

HasConfiguredHooks ==
    /\ pc = "hooked"
    /\ hook_args[1].hook_type \in {"postAdd", "postRemove", "postInit"}
    /\ hook_args[1].config # Err
    /\ hook_args[1].config[2] # None
    /\ hook_args[1].config[2][1].hooks # None
    /\ LET hooks == hook_args[1].config[2][1].hooks[1] IN
       CASE hook_args[1].hook_type = "postAdd" -> hooks.post_add # None
         [] hook_args[1].hook_type = "postRemove" -> hooks.post_remove # None
         [] hook_args[1].hook_type = "postInit" -> hooks.post_init # None

\* the first character of the line that is not white space is '#'
Commented(line) ==
    \E k \in DOMAIN line :
        line[k] = "#" /\ \A j \in 1..(k - 1) : line[j] \in {" ", "\t"}

\* C30: execute_hooks goes through the configured commands of the requested
\* type in configuration order, skips exactly those whose trimmed text
\* starts with '#', runs every other one whatever the earlier ones returned,
\* and returns Ok even when commands failed.
HooksBestEffort ==
    HasConfiguredHooks =>
        /\ hook_result = "ok"
        /\ Len(hook_log) = Len(ConfiguredHooks)
        /\ \A i \in DOMAIN hook_log :
              /\ hook_log[i].hook = ConfiguredHooks[i]
              /\ hook_log[i].kind = IF Commented(ConfiguredHooks[i]) THEN "skip" ELSE "exec"
              /\ hook_log[i].kind = "exec" => hook_log[i].ok = hook_args[1].exits[i]

HooksBestEffortWitness ==
    /\ HasConfiguredHooks
    /\ Len(hook_log) = 3
    /\ hook_log[1].kind = "exec" /\ ~hook_log[1].ok
    /\ hook_log[2].kind = "skip" /\ hook_log[2].hook = <<" ","#","x">>
    /\ hook_log[3].kind = "exec" /\ hook_log[3].ok
    /\ hook_log[3].command = <<"e","c","h","o"," ","f","e","a","t"," ","#","f","e","a","t">>
    /\ hook_result = "ok"

\* ------------------------------------------------------------------ init directories
\* every step of init that depends on the environment alone goes through
InitEnvironmentOk ==
    /\ pc = "init" /\ IsOk(detect_result[1])
    /\ init_env[1].prepare_ok /\ init_env[1].clone_ok /\ init_env[1].branch_ok
    /\ init_env[1].rename_ok /\ init_env[1].save = "ok" /\ init_env[1].hooks_ok

\* C28: once the clone has succeeded, init completes with the cloned
\* repository in the directory named after the default branch, whatever the
\* repository is called (its name may be the default branch's name) and
\* whatever directories of those names the project root held before.
CloneEndsInBranchDirectory ==
    InitEnvironmentOk =>
        /\ init_result = "ok"
        /\ <<init_env[1].default_branch, "clone">> \in init_dirs
        /\ \A d \in init_dirs : d[2] = "clone" => d[1] = init_env[1].default_branch

\* ------------------------------------------------------------------ parser frame
\* the positions of the `worktree ` lines
WorktreeLineIdxs(lines) == {i \in DOMAIN lines : StartsWith(lines[i], <<"w","o","r","k","t","r","e","e"," ">>)}

\* the lines that follow the `worktree ` line at w up to the next one
BlockOf(lines, w) ==
    {i \in (w + 1)..Len(lines) : \A k \in (w + 1)..i : k \notin WorktreeLineIdxs(lines)}

\* the last line of the block at w that starts with the prefix, 0 if none
LastWith(lines, w, prefix) ==
    IF \E i \in BlockOf(lines, w) : StartsWith(lines[i], prefix)
    THEN CHOOSE i \in BlockOf(lines, w) :
            /\ StartsWith(lines[i], prefix)
            /\ \A j \in BlockOf(lines, w) : StartsWith(lines[j], prefix) => j <= i
    ELSE 0

\* the record of the block at w, read from the lines of that block alone
RecordOf(lines, w) ==
    [path |-> SubSeq(lines[w], 10, Len(lines[w])),
     head |-> SubSeq(lines[LastWith(lines, w, <<"H","E","A","D"," ">>)], 6,
                     Len(lines[LastWith(lines, w, <<"H","E","A","D"," ">>)])),
     branch |-> IF LastWith(lines, w, <<"b","r","a","n","c","h"," ">>) = 0 THEN None
                ELSE Some(SubSeq(lines[LastWith(lines, w, <<"b","r","a","n","c","h"," ">>)], 8,
                                 Len(lines[LastWith(lines, w, <<"b","r","a","n","c","h"," ">>)]))),
     bare |-> \E i \in BlockOf(lines, w) : lines[i] = <<"b","a","r","e">>]

\* the blocks that hold a HEAD line
BlocksWithHead(lines) == {w \in WorktreeLineIdxs(lines) : LastWith(lines, w, <<"H","E","A","D"," ">>) # 0}

\* C29: each output record is made of the lines of one block only: the path
\* of its `worktree ` line and the HEAD, branch and bare lines between that
\* line and the next `worktree ` line; lines before the first `worktree `
\* line and unrecognized lines change nothing; there are never more records
\* than `worktree ` lines.
NoFieldCrossesBlocks ==
    pc = "parsed_lines" =>
        /\ Len(worktrees) = Cardinality(BlocksWithHead(porcelain))
        /\ Len(worktrees) <= Cardinality(WorktreeLineIdxs(porcelain))
        /\ \A n \in DOMAIN worktrees :
              \E w \in BlocksWithHead(porcelain) :
                  /\ Cardinality({v \in BlocksWithHead(porcelain) : v <= w}) = n
                  /\ worktrees[n] = RecordOf(porcelain, w)

NoFieldCrossesBlocksWitness ==
    /\ pc = "parsed_lines"
    /\ porcelain = <<<<"w","o","r","k","t","r","e","e"," ","/","p","/","a">>, <<"b","r","a","n","c","h"," ","r","e","f","s","/","h","e","a","d","s","/","x">>, <<"w","o","r","k","t","r","e","e"," ","/","p","/","b">>, <<"H","E","A","D"," ","d","e","a","d","b","e","e","f">>>>
    /\ worktrees = <<[path |-> <<"/","p","/","b">>, head |-> <<"d","e","a","d","b","e","e","f">>, branch |-> None, bare |-> FALSE]>>
====
